---- MODULE Spec2Model ----
(***************************************************************************)
(* A model of ufcscraper: the CSV record store shared by every handler     *)
(* (base.py), the multiprocessing fan-out executors (utils.py and          *)
(* odds_scraper.py), incremental scraping (event/fighter/fight scrapers),  *)
(* the BestFightOdds matcher with its identity write-back, and the bet365  *)
(* identity resolver.                                                      *)
(*                                                                         *)
(* Each part has its own specification over the variables of that part;    *)
(* the variables of the other parts stay at their initial value.           *)
(***************************************************************************)
EXTENDS Integers, Sequences, FiniteSets, TLC

VARIABLES
    \* ---- record store (base.py) ----
    is_file,      \* self.data_file.is_file()
    file,         \* the lines of the CSV file, header first (<<>> when no file)
    data,         \* self.data: the rows of the in-memory DataFrame
    op,           \* the last operation executed on the handler
    dropped,      \* history: rows the last operation removed from the file
    \* ---- fan-out executor (utils.py, odds_scraper.py) ----
    executor,     \* which executor runs: "links_to_soups" or "scrape_BFO_odds"
    n_sessions,   \* the number of workers
    n_tasks,      \* len(urls) / len(ids): the tasks are 1..n_tasks
    task_queue,   \* multiprocessing.Queue of tasks; 0 is the None sentinel
    result_queue, \* multiprocessing.Queue of results; 0 is a None item
    wpc,          \* per worker: "get" (in task_queue.get), "run", "exited"
    wtask,        \* per worker: the task it holds (0: none)
    attempt,      \* per worker: failed attempts on the task it holds
    mpc,          \* the consuming process: where it is
    scraped,      \* urls_scraped / fighters_scraped
    tstate,       \* history: per task, "queued", "held" or "handled"
    produced,     \* history: per task, the items put on result_queue for it
    sentinels,    \* history: the None sentinels put on task_queue
    runs,         \* history: per task, the times method(*args) was executed
    succeeded,    \* history: per task, whether an execution returned
    resets,       \* history: per worker, the times it replaced its session
    yielded,      \* history: per task, the pairs links_to_soups yielded
    \* ---- incremental scraping (event_scraper.py and the like) ----
    listing,      \* the detail-page URLs the source's listing page links to
    fetched,      \* history: the URLs the last scrape_events handed to fetch
    complete,     \* history: the last scrape_events wrote a row for each
    \* ---- BestFightOdds matcher (odds_scraper.py) ----
    results,      \* per fighter_id: the result its worker puts on result_queue
    fighter_names_data, \* self.fighter_names.data: the rows loaded
    f_names,      \* the rows of the fighter-names file
    f_odds,       \* the rows of the odds file written by this run
    odds_log,     \* history: per written odds row, what it was matched on
    fighters_done, \* the fighter_ids whose result has been consumed
    \* ---- identity resolution (bets_scraper.py, odds_scraper.py) ----
    ufcstats_names, \* the UFCStats rows of the names table: <<fighter_id, name>>
    bet365_names, \* the bet365 rows of the names table: <<fighter_id, name>>
    call,         \* the function called last
    arg,          \* the name it was called with
    page,         \* the page the search showed (search_fighter_profile)
    outcome,      \* what the call returned or raised
    \* ---- per-page processing (event/fighter/fight scrapers) ----
    routine,      \* the scraping routine that runs
    soups,        \* the pages links_to_soups is still to yield
    f_data,       \* the rows the routine appended to its data file
    f_rounds,     \* the rows scrape_fights appended to the rounds file
    logged,       \* the URLs logged by the except clause of the loop
    \* ---- round statistics (fight_scraper.py, RoundsHandler) ----
    fight_stats,  \* the cells the page holds: the text of each
    fighter,      \* the arguments of get_stats
    round_,
    finish_round,
    stats,        \* what the call of get_stats returned or raised
    \* ---- the winner of a fight (fight_scraper.py, get_winner) ----
    win_lose,     \* the texts of the person-status elements of the fight page
    fighter_1,    \* the ids get_fighters returned
    fighter_2,
    winner,       \* what the call of get_winner returned or raised
    \* ---- fight ingestion over sessions (fight_scraper.py) ----
    fight_file,   \* the fights with a row in the fight file
    round_file,   \* the keys of the rows of the rounds file
    session,      \* history: what the last session of scrape_fights did
    interrupted,  \* history: the fights a session was killed in after a round row
    \* ---- the odds store over runs of scrape_BFO_odds (odds_scraper.py, base.py) ----
    odds_file,    \* the rows of the odds file, after the header
    odds_data,    \* BestFightOddsScraper.data: the rows load_data read
    odds_op,      \* the operation that acted last on the odds store
    odds_runs,    \* the number of scrape_BFO_odds runs so far
    stale_run,    \* history: some run was made by a handler that had run before
    \* ---- one run of the UFCStats script (scripts/scrape_ufcstats_data.py) ----
    ev_file,      \* the event ids of the rows of the event file
    ev_data,      \* event_scraper.data of the script's UFCScraper: the event ids loaded
    fi_file,      \* the fights with a row in the fight file
    fi_data,      \* fight_scraper.data of the script's UFCScraper: the fights loaded
    spc,          \* the statement of main the script is at
    new_events,   \* history: the events scrape_events appended in this run
    asked,        \* history: the event ids get_fight_urls asked the pages of
    pages_ok,     \* history: the events whose page links_to_soups yielded
    urls_fetched, \* history: urls_to_scrape of scrape_fights
    \* ---- FighterNames.check_missing_records (odds_scraper.py) ----
    names_file,   \* the rows of fighter_names.csv, after the header
    names_data,   \* FighterNames.data: the rows load_data read
    fights_loaded,\* the <<fighter_1, fighter_2>> of the rows of the fight file
    fighters_known,\* the fighter ids of the rows of the fighter file
    nop,          \* the operation that acted last on the fighter names
    n_calls,      \* the number of calls of check_missing_records so far
    n_appended    \* history: the number of rows the last call appended

storeVars == <<is_file, file, data, op, dropped>>
execVars == <<executor, n_sessions, n_tasks, task_queue, result_queue, wpc,
              wtask, attempt, mpc, scraped, tstate, produced, sentinels,
              runs, succeeded, resets, yielded>>

scrapeVars == <<listing, fetched, complete>>

oddsVars == <<results, fighter_names_data, f_names, f_odds, odds_log,
              fighters_done>>

resolveVars == <<ufcstats_names, bet365_names, call, arg, page, outcome>>

pageVars == <<routine, soups, f_data, f_rounds, logged>>

statsVars == <<fight_stats, fighter, round_, finish_round, stats>>

winnerVars == <<win_lose, fighter_1, fighter_2, winner>>

fightVars == <<fight_file, round_file, session, interrupted>>

runVars == <<odds_file, odds_data, odds_op, odds_runs, stale_run>>

scriptVars == <<ev_file, ev_data, fi_file, fi_data, spc, new_events, asked,
                pages_ok, urls_fetched>>

namesVars == <<names_file, names_data, fights_loaded, fighters_known, nop,
               n_calls, n_appended>>

vars == <<storeVars, execVars, scrapeVars, oddsVars, resolveVars, pageVars,
          statsVars, winnerVars, fightVars, runVars, scriptVars, namesVars>>

\* The variables of the parts a specification leaves alone.
notStore == <<execVars, scrapeVars, oddsVars, resolveVars, pageVars,
              statsVars, winnerVars, fightVars, runVars, scriptVars,
              namesVars>>
notExec == <<storeVars, scrapeVars, oddsVars, resolveVars, pageVars,
             statsVars, winnerVars, fightVars, runVars, scriptVars,
             namesVars>>
notScrape == <<execVars, oddsVars, resolveVars, pageVars, statsVars,
               winnerVars, fightVars, runVars, scriptVars, namesVars>>
notOdds == <<storeVars, execVars, scrapeVars, resolveVars, pageVars,
             statsVars, winnerVars, fightVars, runVars, scriptVars,
             namesVars>>
notResolve == <<storeVars, execVars, scrapeVars, oddsVars, pageVars,
                statsVars, winnerVars, fightVars, runVars, scriptVars,
                namesVars>>
notPages == <<storeVars, execVars, scrapeVars, oddsVars, resolveVars,
              statsVars, winnerVars, fightVars, runVars, scriptVars,
              namesVars>>
notStats == <<storeVars, execVars, scrapeVars, oddsVars, resolveVars,
              pageVars, winnerVars, fightVars, runVars, scriptVars,
              namesVars>>
notWinner == <<storeVars, execVars, scrapeVars, oddsVars, resolveVars,
               pageVars, statsVars, fightVars, runVars, scriptVars,
               namesVars>>
notFights == <<storeVars, execVars, scrapeVars, oddsVars, resolveVars,
               pageVars, statsVars, winnerVars, runVars, scriptVars,
               namesVars>>
notRuns == <<storeVars, execVars, scrapeVars, oddsVars, resolveVars,
             pageVars, statsVars, winnerVars, fightVars, scriptVars,
             namesVars>>
notScript == <<storeVars, execVars, scrapeVars, oddsVars, resolveVars,
               pageVars, statsVars, winnerVars, fightVars, runVars,
               namesVars>>
notNames == <<storeVars, execVars, scrapeVars, oddsVars, resolveVars,
              pageVars, statsVars, winnerVars, fightVars, runVars,
              scriptVars>>

(***************************************************************************)
(* Sequences                                                               *)
(***************************************************************************)
Range(s) == {s[i] : i \in DOMAIN s}

\* All sequences over S of length at most n.
SeqsUpTo(S, n) == UNION {[1..k -> S] : k \in 0..n}

\* No page shown, and no call made yet.
NoPage == [kind |-> "none", rows |-> <<>>, fighter |-> ""]
NoOutcome == [kind |-> "none", value |-> <<>>]

\* get_winner while another part of the program is looked at.
WinnerIdle ==
    /\ win_lose = <<>>
    /\ fighter_1 = ""
    /\ fighter_2 = ""
    /\ winner = NoOutcome

\* No session of scrape_fights has run.
NoSession == [ran |-> FALSE, get_all_events |-> FALSE, fetched |-> {}, all_ok |-> FALSE]

\* The fight sessions while another part of the program is looked at.
FightsIdle ==
    /\ fight_file = {}
    /\ round_file = {}
    /\ session = NoSession
    /\ interrupted = {}

\* The odds store while another part of the program is looked at.
RunsIdle ==
    /\ odds_file = <<>>
    /\ odds_data = <<>>
    /\ odds_op = "none"
    /\ odds_runs = 0
    /\ stale_run = FALSE

\* The script while another part of the program is looked at.
ScriptIdle ==
    /\ ev_file = {}
    /\ ev_data = {}
    /\ fi_file = {}
    /\ fi_data = {}
    /\ spc = "none"
    /\ new_events = {}
    /\ asked = {}
    /\ pages_ok = {}
    /\ urls_fetched = {}

\* The fighter names while another part of the program is looked at.
NamesIdle ==
    /\ names_file = <<>>
    /\ names_data = <<>>
    /\ fights_loaded = {}
    /\ fighters_known = {}
    /\ nop = "none"
    /\ n_calls = 0
    /\ n_appended = 0

\* The page loop while another part of the program is looked at.
PagesIdle ==
    /\ routine = "none"
    /\ soups = <<>>
    /\ f_data = <<>>
    /\ f_rounds = <<>>
    /\ logged = <<>>

\* get_stats while another part of the program is looked at.
StatsIdle ==
    /\ fight_stats = <<>>
    /\ fighter = 0
    /\ round_ = 0
    /\ finish_round = 0
    /\ stats = NoOutcome

\* The executor while another part of the program is looked at.
ExecIdle ==
    /\ executor = "none"
    /\ n_sessions = 0
    /\ n_tasks = 0
    /\ task_queue = <<>>
    /\ result_queue = <<>>
    /\ wpc = <<>>
    /\ wtask = <<>>
    /\ attempt = <<>>
    /\ mpc = "none"
    /\ scraped = 0
    /\ tstate = <<>>
    /\ produced = <<>>
    /\ sentinels = 0
    /\ runs = <<>>
    /\ succeeded = <<>>
    /\ resets = <<>>
    /\ yielded = <<>>

\* The scrapers while another part of the program is looked at.
ScrapeIdle ==
    /\ listing = {}
    /\ fetched = {}
    /\ complete = FALSE

\* The odds matcher while another part of the program is looked at.
OddsIdle ==
    /\ results = <<>>
    /\ fighter_names_data = {}
    /\ f_names = <<>>
    /\ f_odds = <<>>
    /\ odds_log = <<>>
    /\ fighters_done = {}

\* The resolver while another part of the program is looked at.
ResolveIdle ==
    /\ ufcstats_names = <<>>
    /\ bet365_names = {}
    /\ call = "none"
    /\ arg = ""
    /\ page = NoPage
    /\ outcome = NoOutcome

(***************************************************************************)
(* PART 1.  The record store: BaseFileHandler (base.py)                    *)
(*                                                                         *)
(* A file is a sequence of lines, a line a tuple of NCols text fields.     *)
(* The handlers read with pandas.read_csv and write with DataFrame.to_csv; *)
(* scrapers append with csv.writer.  read_csv does not keep the text: it   *)
(* turns its NA spellings into NaN and a column of numbers into int64 or   *)
(* float64, and to_csv spells what read_csv kept.                          *)
(***************************************************************************)

\* Rows of the file at construction, and rows a handler may hold afterwards.
MaxRows == 2

\* The model's schema has two columns, as `columns` of a handler subclass.
columns == <<"id", "val">>
NCols == Len(columns)

\* The text fields a scraper writes: a key, then free text, the sentinel
\* "NULL" for a missing value, or an integer.
Ids == {"a", "b"}
Vals == {"x", "NULL", "1"}
Row == {<<i, v>> : i \in Ids, v \in Vals}

\* What a file may hold besides: the fields as to_csv spells them.
FileRow == {<<i, v>> : i \in Ids, v \in Vals \cup {"", "1.0"}}

\* pandas' default NA spellings that occur in the model's alphabet.
NaTokens == {"", "NULL"}
IntTokens == {"1"}
FloatTokens == {"1.0"}
NaN == <<"nan", "">>

\* How to_csv spells the float64 value of a numeric token.
AsFloat(t) == IF t = "1" THEN "1.0" ELSE t

\* read_csv's dtype for a column holding the text fields `cells`.
infer_dtype(cells) ==
    IF cells = {} THEN "object"
    ELSE IF cells \subseteq IntTokens THEN "int64"
    ELSE IF cells \subseteq (IntTokens \cup FloatTokens \cup NaTokens) THEN "float64"
    ELSE "object"

\* The value read_csv keeps for text field t of a column of dtype d:
\* <<dtype, spelling>>.
parse_cell(d, t) ==
    IF t \in NaTokens THEN NaN
    ELSE IF d = "float64" THEN <<"float64", AsFloat(t)>>
    ELSE IF d = "int64" THEN <<"int64", t>>
    ELSE <<"object", t>>

\* pandas.read_csv(path): the first line is the header, the others the rows.
read_csv(f) ==
    LET body == Tail(f)
        col(c) == {body[i][c] : i \in DOMAIN body}
    IN  [i \in DOMAIN body |->
            [c \in 1..NCols |-> parse_cell(infer_dtype(col(c)), body[i][c])]]

\* A slip in drop_duplicates: keep="last".
RECURSIVE drop_duplicates_keep_last(_)
drop_duplicates_keep_last(df) ==
    IF df = <<>> THEN <<>>
    ELSE LET rest == drop_duplicates_keep_last(Tail(df))
         IN  IF Head(df) \in Range(rest) THEN rest ELSE <<Head(df)>> \o rest

\* DataFrame.drop_duplicates(): keep="first", NaN equal to NaN.
RECURSIVE drop_duplicates(_)
drop_duplicates(df) ==
    IF df = <<>> THEN <<>>
    ELSE LET init == drop_duplicates(SubSeq(df, 1, Len(df) - 1))
             last == df[Len(df)]
         IN  IF last \in Range(init) THEN init ELSE Append(init, last)

\* A slip in the write: na_rep="missing", which read_csv reads as text.
to_csv_na_rep(df) ==
    <<columns>> \o [i \in DOMAIN df |->
        [c \in 1..NCols |-> IF df[i][c] = NaN THEN "missing" ELSE df[i][c][2]]]

\* DataFrame.to_csv(path, index=False): header, then each value's spelling
\* (NaN as the empty field).
to_csv(df) ==
    <<columns>> \o [i \in DOMAIN df |-> [c \in 1..NCols |-> df[i][c][2]]]

\* A slip in check_data_file: the file is opened with "w" whether it is
\* there or not.
check_data_file_always_new(isf, f) == <<columns>>

\* check_data_file: a missing file is created with the header alone.
check_data_file(isf, f) == IF isf THEN f ELSE <<columns>>

\* A slip in remove_duplicates_from_file: the result is not written back.
remove_duplicates_not_written(f) == f

\* remove_duplicates_from_file: the lines of the file afterwards.
remove_duplicates_from_file(f) == to_csv(drop_duplicates(read_csv(f)))

\* load_data: self.data afterwards.
load_data(f) == drop_duplicates(read_csv(f))

\* A slip in the scrapers: the file opened with "w" instead of "a".
writerow_truncating(f, row) == <<columns, row>>

\* csv.writer(f).writerow(row) on the file opened for appending.
writerow(f, row) == Append(f, row)

\* The files a finished session may have left: header, then any rows.
Files == {<<columns>> \o body : body \in SeqsUpTo(FileRow, MaxRows)}

\* The store while another part of the program is looked at.
StoreIdle ==
    /\ is_file = FALSE
    /\ file = <<>>
    /\ data = <<>>
    /\ op = "none"
    /\ dropped = 0

StoreInit ==
    /\ is_file \in BOOLEAN
    /\ file \in (IF is_file THEN Files ELSE {<<>>})
    /\ data = <<>>
    /\ op = "none"
    /\ dropped = 0
    /\ ExecIdle
    /\ ScrapeIdle
    /\ OddsIdle
    /\ ResolveIdle
    /\ PagesIdle
    /\ StatsIdle
    /\ WinnerIdle
    /\ FightsIdle
    /\ RunsIdle
    /\ ScriptIdle
    /\ NamesIdle

\* BaseFileHandler.__init__: check_data_file, remove_duplicates_from_file,
\* load_data.  A session constructs handlers over the same file repeatedly
\* (FightScraper.scrape_fights makes a RoundsHandler, get_fight_urls an
\* EventScraper, get_ufcstats_data a UFCScraper).
Construct ==
    LET f1 == check_data_file(is_file, file)
        f2 == remove_duplicates_from_file(f1)
    IN  /\ is_file' = TRUE
        /\ file' = f2
        /\ data' = load_data(f2)
        /\ op' = "init"
        /\ dropped' = Len(f1) - Len(f2)
        /\ UNCHANGED notStore

\* A slip in a scraper: the row is also put into self.data.
ScrapeIntoData(row) ==
    /\ op # "none"
    /\ Len(file) < 1 + MaxRows + 1
    /\ file' = writerow(file, row)
    /\ data' = load_data(file')
    /\ op' = "scrape"
    /\ dropped' = 0
    /\ UNCHANGED <<is_file, notStore>>

\* A scraper appends one row it scraped (scrape_events, scrape_fighters,
\* scrape_fights, scrape_BFO_odds): the file grows, self.data is not touched.
Scrape(row) ==
    /\ op # "none"
    /\ Len(file) < 1 + MaxRows + 1
    /\ file' = writerow(file, row)
    /\ op' = "scrape"
    /\ dropped' = 0
    /\ UNCHANGED <<is_file, data, notStore>>

RemoveDuplicates ==
    /\ op # "none"
    /\ file' = remove_duplicates_from_file(file)
    /\ op' = "remove_duplicates_from_file"
    /\ dropped' = Len(file) - Len(file')
    /\ UNCHANGED <<is_file, data, notStore>>

LoadData ==
    /\ op # "none"
    /\ data' = load_data(file)
    /\ op' = "load_data"
    /\ dropped' = 0
    /\ UNCHANGED <<is_file, file, notStore>>

\* FighterNames.check_missing_records (odds_scraper.py), on the store's two
\* columns: `recs` are the rows [fighter_id, name] of get_ufcstats_data.  When
\* some fighter_id of them is not in self.data, every row of `recs` is
\* appended and the data reloaded.
MaxRecs == 2
check_missing(df, recs) ==
    \E i \in DOMAIN recs : recs[i][1] \notin {df[j][1][2] : j \in DOMAIN df}

CheckMissingRecords(recs) ==
    /\ op # "none"
    /\ Len(file) + Len(recs) <= 1 + MaxRows + 1
    /\ IF check_missing(data, recs)
       THEN /\ file' = file \o recs
            /\ data' = load_data(file')
       ELSE UNCHANGED <<file, data>>
    /\ op' = "check_missing_records"
    /\ dropped' = 0
    /\ UNCHANGED <<is_file, notStore>>

StoreNext ==
    \/ Construct
    \/ \E row \in Row : Scrape(row)
    \/ RemoveDuplicates
    \/ LoadData
    \/ \E recs \in SeqsUpTo({<<i, "x">> : i \in Ids}, MaxRecs) \ {<<>>} :
            CheckMissingRecords(recs)

SpecStore == StoreInit /\ [][StoreNext]_vars

(***************************************************************************)
(* Claims about the record store                                           *)
(***************************************************************************)

\* No two elements of s are equal.
NoDuplicates(s) == \A i, j \in DOMAIN s : s[i] = s[j] => i = j

\* The first occurrence of each distinct element of s, in the order of s:
\* s from position i on, without the elements of `seen` and without repeats.
RECURSIVE FirstOccurrencesFrom(_, _, _)
FirstOccurrencesFrom(s, i, seen) ==
    IF i > Len(s) THEN <<>>
    ELSE IF s[i] \in seen THEN FirstOccurrencesFrom(s, i + 1, seen)
    ELSE <<s[i]>> \o FirstOccurrencesFrom(s, i + 1, seen \cup {s[i]})
FirstOccurrences(s) == FirstOccurrencesFrom(s, 1, {})

\* The rows of a DataFrame as text (each value's spelling).
Spelled(df) == Tail(to_csv(df))

\* C3 as stated, rows being the lines of the file: after
\* remove_duplicates_from_file the file's rows, and after load_data the rows
\* of data, are the first occurrences of the distinct rows of the file read.
C3_RowsOfInputSurvive ==
    [][ /\ op' = "remove_duplicates_from_file"
            => Tail(file') = FirstOccurrences(Tail(file))
        /\ op' = "load_data"
            => Spelled(data') = FirstOccurrences(Tail(file)) ]_vars

\* C3 amended: rows are compared as read_csv reads them.  After
\* remove_duplicates_from_file no two rows of the file are equal, as text or
\* as read, and the file reads as the first occurrences of the distinct rows
\* read from the file before, in their order; after load_data, data holds no
\* two equal rows and is the first occurrences of the rows read from the file.
C3_FirstOccurrencesAsRead ==
    [][ /\ op' = "remove_duplicates_from_file"
            => /\ NoDuplicates(Tail(file'))
               /\ NoDuplicates(read_csv(file'))
               /\ read_csv(file') = FirstOccurrences(read_csv(file))
        /\ op' = "load_data"
            => /\ NoDuplicates(data')
               /\ data' = FirstOccurrences(read_csv(file)) ]_vars

\* C3 witness: remove_duplicates_from_file has just removed duplicate rows
\* and rows of two keys survive.
C3_Witness ==
    /\ op = "remove_duplicates_from_file"
    /\ dropped > 0
    /\ Len(file) >= 3

\* The value a text field stands for wherever it is read: missing, a number
\* (spelled as a float), or the text itself.
FieldValue(t) ==
    IF t \in NaTokens THEN NaN
    ELSE IF t \in IntTokens \cup FloatTokens THEN <<"number", AsFloat(t)>>
    ELSE <<"text", t>>
RowValues(f) == {[c \in 1..NCols |-> FieldValue(f[i][c])] : i \in 2..Len(f)}

\* C8 as stated: no step removes a line of the file or changes one; the set
\* of distinct lines only grows.
C8_LinesOnlyGrow ==
    [][ Range(file) \subseteq Range(file') ]_vars

\* C8 amended: no step removes a distinct row or changes the values of one;
\* the set of distinct rows, each field taken as the value it stands for
\* (missing, number or text), only grows.  A deduplication pass may respell a
\* row: "NULL" as the empty field, an integer as a float.
C8_RowValuesOnlyGrow ==
    [][ RowValues(file) \subseteq RowValues(file') ]_vars

\* C8 witness: a deduplication pass has run over a file a scrape had grown
\* to more than one distinct row, respelling a missing value.
C8_Witness ==
    /\ op \in {"remove_duplicates_from_file", "init"}
    /\ dropped > 0
    /\ \E i \in 2..Len(file) : file[i][2] = ""
    /\ Cardinality(RowValues(file)) >= 2

C10_ConstructionHeals ==
    [][ op' = "init" =>
          LET orig == IF is_file THEN file ELSE <<columns>>
          IN  /\ NoDuplicates(read_csv(file'))
              /\ read_csv(file') = FirstOccurrences(read_csv(orig))
              /\ data' = read_csv(file')
              /\ to_csv(load_data(file')) = file'
              /\ to_csv(load_data(file')) = to_csv(FirstOccurrences(read_csv(orig)))
      ]_vars

\* C10 witness: a construction has removed duplicate rows from the file.
C10_Witness ==
    /\ op = "init"
    /\ dropped > 0
    /\ Len(data) >= 2

\* C22: a construction over no file leaves a file that holds the header of
\* the declared columns and nothing else, and data empty; check_data_file
\* leaves a file that is there as it is, and a construction over it keeps
\* the header and every distinct row.
C22_ConstructionCreatesOrKeeps ==
    [][ op' = "init" =>
          IF is_file
          THEN /\ check_data_file(is_file, file) = file
               /\ file'[1] = file[1]
               /\ RowValues(file) \subseteq RowValues(file')
          ELSE /\ is_file'
               /\ file' = <<columns>>
               /\ data' = <<>> ]_vars

\* C22 witness: a construction has left the header alone in the file and
\* no row in data, as the one over no file does.
C22_Witness ==
    /\ op = "init"
    /\ is_file
    /\ file = <<columns>>
    /\ data = <<>>

MaxTasks == 2
MaxWorkers == 2

\* max_exception_retries: the default of utils.worker_constructor, and the
\* class attribute of BestFightOddsScraper.
SoupsMaxExceptionRetries == 4
BFOMaxExceptionRetries == 3
max_exception_retries ==
    IF executor = "links_to_soups" THEN SoupsMaxExceptionRetries
    ELSE BFOMaxExceptionRetries

Workers == 1..n_sessions
Tasks == 1..n_tasks
None == 0

ExecInit ==
    /\ executor \in {"links_to_soups", "scrape_BFO_odds"}
    /\ n_sessions \in 1..MaxWorkers
    /\ n_tasks \in 0..MaxTasks
    /\ task_queue = [t \in 1..n_tasks |-> t]
    /\ result_queue = <<>>
    /\ wpc = [w \in 1..n_sessions |-> "get"]
    /\ wtask = [w \in 1..n_sessions |-> None]
    /\ attempt = [w \in 1..n_sessions |-> 0]
    /\ mpc = "loop"
    /\ scraped = 0
    /\ tstate = [t \in 1..n_tasks |-> "queued"]
    /\ produced = [t \in 1..n_tasks |-> 0]
    /\ sentinels = 0
    /\ runs = [t \in 1..n_tasks |-> 0]
    /\ succeeded = [t \in 1..n_tasks |-> FALSE]
    /\ resets = [w \in 1..n_sessions |-> 0]
    /\ yielded = [t \in 1..n_tasks |-> 0]
    /\ StoreIdle
    /\ ScrapeIdle
    /\ OddsIdle
    /\ ResolveIdle
    /\ PagesIdle
    /\ StatsIdle
    /\ WinnerIdle
    /\ FightsIdle
    /\ RunsIdle
    /\ ScriptIdle
    /\ NamesIdle

\* worker: task = task_queue.get(); if task is None: break
WorkerGet(w) ==
    /\ wpc[w] = "get"
    /\ task_queue # <<>>
    /\ task_queue' = Tail(task_queue)
    /\ IF Head(task_queue) = None
       THEN /\ wpc' = [wpc EXCEPT ![w] = "exited"]
            /\ UNCHANGED <<wtask, tstate>>
       ELSE /\ wpc' = [wpc EXCEPT ![w] = "run"]
            /\ wtask' = [wtask EXCEPT ![w] = Head(task_queue)]
            /\ tstate' = [tstate EXCEPT ![Head(task_queue)] = "held"]
    /\ attempt' = [attempt EXCEPT ![w] = 0]
    /\ UNCHANGED <<executor, n_sessions, n_tasks, result_queue, mpc, scraped,
                   produced, sentinels, runs, succeeded, resets, yielded,
                   notExec>>

\* An attempt succeeds: result = method(*args, session);
\* result_queue.put(result); break.
AttemptSucceeds(w) ==
    /\ wpc[w] = "run"
    /\ result_queue' = Append(result_queue, wtask[w])
    /\ produced' = [produced EXCEPT ![wtask[w]] = @ + 1]
    /\ tstate' = [tstate EXCEPT ![wtask[w]] = "handled"]
    /\ wpc' = [wpc EXCEPT ![w] = "get"]
    /\ wtask' = [wtask EXCEPT ![w] = None]
    /\ attempt' = [attempt EXCEPT ![w] = 0]
    /\ runs' = [runs EXCEPT ![wtask[w]] = @ + 1]
    /\ succeeded' = [succeeded EXCEPT ![wtask[w]] = TRUE]
    /\ UNCHANGED <<executor, n_sessions, n_tasks, task_queue, mpc, scraped,
                   sentinels, resets, yielded, notExec>>

\* A slip in the retry loop: one attempt more than the budget.
AttemptFailsOnceMore(w) ==
    /\ wpc[w] = "run"
    /\ IF attempt[w] + 1 < max_exception_retries + 2
       THEN /\ attempt' = [attempt EXCEPT ![w] = @ + 1]
            /\ UNCHANGED <<wpc, wtask, tstate>>
       ELSE /\ attempt' = [attempt EXCEPT ![w] = 0]
            /\ wpc' = [wpc EXCEPT ![w] = "get"]
            /\ tstate' = [tstate EXCEPT ![wtask[w]] = "handled"]
            /\ wtask' = [wtask EXCEPT ![w] = None]
    /\ runs' = [runs EXCEPT ![wtask[w]] = @ + 1]
    /\ resets' = [resets EXCEPT ![w] = @ + 1]
    /\ UNCHANGED <<executor, n_sessions, n_tasks, task_queue, result_queue,
                   mpc, scraped, produced, sentinels, succeeded, yielded,
                   notExec>>

\* A slip in the inner except: the session is not replaced.
AttemptFailsWithoutReset(w) ==
    /\ wpc[w] = "run"
    /\ IF attempt[w] + 1 < max_exception_retries + 1
       THEN /\ attempt' = [attempt EXCEPT ![w] = @ + 1]
            /\ UNCHANGED <<wpc, wtask, tstate>>
       ELSE /\ attempt' = [attempt EXCEPT ![w] = 0]
            /\ wpc' = [wpc EXCEPT ![w] = "get"]
            /\ tstate' = [tstate EXCEPT ![wtask[w]] = "handled"]
            /\ wtask' = [wtask EXCEPT ![w] = None]
    /\ runs' = [runs EXCEPT ![wtask[w]] = @ + 1]
    /\ UNCHANGED <<executor, n_sessions, n_tasks, task_queue, result_queue,
                   mpc, scraped, produced, sentinels, succeeded, resets,
                   yielded, notExec>>

\* A slip in the worker: it ends when a task has used up its attempts.
AttemptFailsAndExits(w) ==
    /\ wpc[w] = "run"
    /\ IF attempt[w] + 1 < max_exception_retries + 1
       THEN /\ attempt' = [attempt EXCEPT ![w] = @ + 1]
            /\ UNCHANGED <<wpc, wtask, tstate>>
       ELSE /\ attempt' = [attempt EXCEPT ![w] = 0]
            /\ wpc' = [wpc EXCEPT ![w] = "exited"]
            /\ tstate' = [tstate EXCEPT ![wtask[w]] = "handled"]
            /\ wtask' = [wtask EXCEPT ![w] = None]
    /\ runs' = [runs EXCEPT ![wtask[w]] = @ + 1]
    /\ resets' = [resets EXCEPT ![w] = @ + 1]
    /\ UNCHANGED <<executor, n_sessions, n_tasks, task_queue, result_queue,
                   mpc, scraped, produced, sentinels, succeeded, yielded,
                   notExec>>

\* An attempt raises: the inner except logs, closes the session (quits the
\* driver) and opens a new one, and the for loop goes on; after the attempt
\* numbered max_exception_retries the loop is over, the body of the outer
\* try ends, and the worker is back at task_queue.get().
AttemptFails(w) ==
    /\ wpc[w] = "run"
    /\ IF attempt[w] + 1 < max_exception_retries + 1
       THEN /\ attempt' = [attempt EXCEPT ![w] = @ + 1]
            /\ UNCHANGED <<wpc, wtask, tstate>>
       ELSE /\ attempt' = [attempt EXCEPT ![w] = 0]
            /\ wpc' = [wpc EXCEPT ![w] = "get"]
            /\ tstate' = [tstate EXCEPT ![wtask[w]] = "handled"]
            /\ wtask' = [wtask EXCEPT ![w] = None]
    /\ runs' = [runs EXCEPT ![wtask[w]] = @ + 1]
    /\ resets' = [resets EXCEPT ![w] = @ + 1]
    /\ UNCHANGED <<executor, n_sessions, n_tasks, task_queue, result_queue,
                   mpc, scraped, produced, sentinels, succeeded, yielded,
                   notExec>>

\* An attempt raises and the reset in the inner except raises too
\* (session.close() / get_session(), driver.quit() / webdriver.Chrome()): the
\* outer except resets again and puts None on the result queue.
ResetRaises(w) ==
    /\ wpc[w] = "run"
    /\ result_queue' = Append(result_queue, None)
    /\ produced' = [produced EXCEPT ![wtask[w]] = @ + 1]
    /\ tstate' = [tstate EXCEPT ![wtask[w]] = "handled"]
    /\ wpc' = [wpc EXCEPT ![w] = "get"]
    /\ wtask' = [wtask EXCEPT ![w] = None]
    /\ attempt' = [attempt EXCEPT ![w] = 0]
    /\ runs' = [runs EXCEPT ![wtask[w]] = @ + 1]
    /\ resets' = [resets EXCEPT ![w] = @ + 1]
    /\ UNCHANGED <<executor, n_sessions, n_tasks, task_queue, mpc, scraped,
                   sentinels, succeeded, yielded, notExec>>

\* A slip in the loop: the result is yielded without the None test.
SoupsGetYieldsNone ==
    /\ executor = "links_to_soups"
    /\ mpc = "loop"
    /\ scraped < n_tasks
    /\ result_queue # <<>>
    /\ result_queue' = Tail(result_queue)
    /\ scraped' = scraped + 1
    /\ mpc' = "yield"
    /\ yielded' = IF Head(result_queue) # None
                  THEN [yielded EXCEPT ![Head(result_queue)] = @ + 1]
                  ELSE yielded
    /\ UNCHANGED <<executor, n_sessions, n_tasks, task_queue, wpc, wtask,
                   attempt, tstate, produced, sentinels, runs, succeeded,
                   resets, notExec>>

\* links_to_soups: result = result_queue.get(); urls_scraped += 1; a result
\* that is not None is yielded, and the generator waits at the yield.
SoupsGet ==
    /\ executor = "links_to_soups"
    /\ mpc = "loop"
    /\ scraped < n_tasks
    /\ result_queue # <<>>
    /\ result_queue' = Tail(result_queue)
    /\ scraped' = scraped + 1
    /\ mpc' = IF Head(result_queue) # None THEN "yield" ELSE "loop"
    /\ yielded' = IF Head(result_queue) # None
                  THEN [yielded EXCEPT ![Head(result_queue)] = @ + 1]
                  ELSE yielded
    /\ UNCHANGED <<executor, n_sessions, n_tasks, task_queue, wpc, wtask,
                   attempt, tstate, produced, sentinels, runs, succeeded,
                   resets, notExec>>

\* The caller asks the generator for the next pair.
SoupsResume ==
    /\ mpc = "yield"
    /\ mpc' = "loop"
    /\ UNCHANGED <<executor, n_sessions, n_tasks, task_queue, result_queue,
                   wpc, wtask, attempt, scraped, tstate, produced, sentinels,
                   runs, succeeded, resets, yielded, notExec>>

\* A slip in the shutdown: the sentinels go to the front of the queue.
put_sentinels_in_front(q, n) == [i \in 1..n |-> None] \o q

\* The finally block of links_to_soups, and the lines after the with block
\* of scrape_BFO_odds: one None per session on the task queue.
put_sentinels(q, n) == q \o [i \in 1..n |-> None]

\* links_to_soups: the while loop is over, or the generator is closed at the
\* yield; the finally block runs.
SoupsFinally ==
    /\ executor = "links_to_soups"
    /\ \/ mpc = "loop" /\ scraped >= n_tasks
       \/ mpc = "yield"
    /\ task_queue' = put_sentinels(task_queue, n_sessions)
    /\ sentinels' = sentinels + n_sessions
    /\ mpc' = "join"
    /\ UNCHANGED <<executor, n_sessions, n_tasks, result_queue, wpc, wtask,
                   attempt, scraped, tstate, produced, runs, succeeded,
                   resets, yielded, notExec>>

\* scrape_BFO_odds: result, fighter_id = result_queue.get() raises TypeError
\* on a None item; otherwise fighters_scraped += 1 and the result is matched,
\* which raises (raises = TRUE) when the profile holds a date parse_date
\* could not parse (None - date).  Nothing in scrape_BFO_odds catches either.
BFOGet(raises) ==
    /\ executor = "scrape_BFO_odds"
    /\ mpc = "loop"
    /\ scraped < n_tasks
    /\ result_queue # <<>>
    /\ result_queue' = Tail(result_queue)
    /\ IF Head(result_queue) = None
       THEN /\ mpc' = "raised"
            /\ UNCHANGED scraped
       ELSE /\ scraped' = scraped + 1
            /\ mpc' = IF raises THEN "raised" ELSE "loop"
    /\ UNCHANGED <<executor, n_sessions, n_tasks, task_queue, wpc, wtask,
                   attempt, tstate, produced, sentinels, runs, succeeded,
                   resets, yielded, notExec>>

\* scrape_BFO_odds: the while loop is over; for _ in range(self.n_sessions):
\* task_queue.put(None).
BFOShutdown ==
    /\ executor = "scrape_BFO_odds"
    /\ mpc = "loop"
    /\ scraped >= n_tasks
    /\ task_queue' = put_sentinels(task_queue, n_sessions)
    /\ sentinels' = sentinels + n_sessions
    /\ mpc' = "join"
    /\ UNCHANGED <<executor, n_sessions, n_tasks, result_queue, wpc, wtask,
                   attempt, scraped, tstate, produced, runs, succeeded,
                   resets, yielded, notExec>>

\* for worker in workers: worker.join()
Join ==
    /\ mpc = "join"
    /\ \A w \in Workers : wpc[w] = "exited"
    /\ mpc' = "done"
    /\ UNCHANGED <<executor, n_sessions, n_tasks, task_queue, result_queue,
                   wpc, wtask, attempt, scraped, tstate, produced, sentinels,
                   runs, succeeded, resets, yielded, notExec>>

ExecNext ==
    \/ \E w \in Workers : WorkerGet(w)
    \/ \E w \in Workers : AttemptSucceeds(w)
    \/ \E w \in Workers : AttemptFails(w)
    \/ \E w \in Workers : ResetRaises(w)
    \/ SoupsGet
    \/ SoupsResume
    \/ SoupsFinally
    \/ \E raises \in BOOLEAN : BFOGet(raises)
    \/ BFOShutdown
    \/ Join

SpecExec == ExecInit /\ [][ExecNext]_vars

(***************************************************************************)
(* Claims about the executors                                              *)
(***************************************************************************)

\* The consumer waits in result_queue.get() for an item nothing will send.
ConsumerStuck ==
    /\ mpc = "loop"
    /\ scraped < n_tasks
    /\ result_queue = <<>>
    /\ \A t \in Tasks : tstate[t] = "handled"

\* C1: a task a worker took and is done with has put exactly one item on the
\* result queue, and the consumer is never left waiting for an item that no
\* worker will put.
C1_OneResultPerTask ==
    /\ \A t \in Tasks : tstate[t] = "handled" => produced[t] = 1
    /\ ~ConsumerStuck

\* The executor run is over: links_to_soups is exhausted or closed and its
\* finally block has run, scrape_BFO_odds has returned or raised.
RunEnded == mpc \in {"done", "raised"}

\* C2: when an executor run is over, one sentinel per worker has been put on
\* the task queue, every worker has taken one and exited, and none is left
\* in task_queue.get().
C2_ShutdownLeavesNoWorker ==
    RunEnded =>
        /\ sentinels = n_sessions
        /\ \A w \in Workers : wpc[w] = "exited"
        /\ task_queue = <<>>

\* C12 as stated: at most 4 executions of any task, and none after the
\* first that succeeded.
C12_AtMostFourAttempts ==
    [][\A t \in Tasks : /\ runs'[t] <= 4
                        /\ succeeded[t] => runs'[t] = runs[t]]_vars

\* C12: a task is executed at most max_exception_retries + 1 times, which is
\* 5 times in links_to_soups and 4 times in scrape_BFO_odds, and never
\* again after an execution that succeeded.
C12_AttemptsBounded ==
    [][\A t \in Tasks :
        /\ runs'[t] <= IF executor = "links_to_soups" THEN 5 ELSE 4
        /\ succeeded[t] => runs'[t] = runs[t]]_vars

\* A task of links_to_soups was given up after its fifth execution.
C12_Witness ==
    /\ executor = "links_to_soups"
    /\ \E t \in Tasks : runs[t] = 5 /\ ~succeeded[t] /\ tstate[t] = "handled"

\* The step is a failed attempt of worker w: it executed its task once
\* more without success.
FailedAttempt(w) ==
    /\ wpc[w] = "run"
    /\ runs'[wtask[w]] = runs[wtask[w]] + 1
    /\ ~succeeded'[wtask[w]]

\* C13: a failed attempt replaces the worker's session (driver), and if the
\* worker attempts again it is on the same task; no other step of the
\* executor replaces a session, so it is reused from task to task.
C13_ResetOnlyAfterFailure ==
    [][\A w \in Workers :
        IF FailedAttempt(w)
        THEN /\ resets'[w] = resets[w] + 1
             /\ wpc'[w] = "run" => wtask'[w] = wtask[w]
        ELSE resets'[w] = resets[w]]_vars

\* A worker that failed once, replaced its session and is on the same task,
\* beside a task that succeeded without any replacement.
C13_Witness ==
    \E w \in Workers :
        /\ wpc[w] = "run" /\ attempt[w] = 1 /\ resets[w] = 1
        /\ \E t \in Tasks : succeeded[t] /\ runs[t] = 1

\* The step is the last attempt the budget allows, and it fails.
Exhausts(w) == FailedAttempt(w) /\ attempt[w] = max_exception_retries

\* No worker can take a step: each has exited or waits at an empty queue.
WorkersAtRest ==
    \A w \in Workers : wpc[w] = "exited" \/ (wpc[w] = "get" /\ task_queue = <<>>)

\* C14: a task that uses up its attempts leaves its worker at
\* task_queue.get() with the queue as it was; the workers come to rest only
\* when every task was executed, and when links_to_soups then waits at the
\* result queue every result put on it was yielded.
C14_ExhaustionBlocksNothing ==
    /\ [][\A w \in Workers :
            Exhausts(w) => wpc'[w] = "get" /\ task_queue' = task_queue]_vars
    /\ [](WorkersAtRest => \A t \in Tasks : tstate[t] = "handled" /\ runs[t] >= 1)
    /\ []((WorkersAtRest /\ executor = "links_to_soups" /\ mpc = "loop"
            /\ result_queue = <<>>)
          => \A t \in Tasks : succeeded[t] => yielded[t] = 1)

\* One task used up its attempts and put nothing, another was executed
\* after it by the same worker and its result yielded.
C14_Witness ==
    /\ executor = "links_to_soups"
    /\ n_sessions = 1
    /\ \E t1, t2 \in Tasks :
        /\ t1 < t2
        /\ tstate[t1] = "handled" /\ ~succeeded[t1] /\ produced[t1] = 0
        /\ yielded[t2] = 1

\* links_to_soups has consumed everything it is going to be handed.
SoupsDrained ==
    /\ executor = "links_to_soups"
    /\ \/ mpc \in {"join", "done"} /\ scraped = n_tasks
       \/ mpc = "loop" /\ result_queue = <<>> /\ WorkersAtRest

\* C15: links_to_soups yields only at a result that is not None, and the
\* pair is the one of the input entry the worker fetched; no entry is yielded
\* twice, none is yielded whose fetch did not succeed, and once everything
\* put on the result queue was consumed every fetched entry was yielded.
C15_OnePairPerFetchedURL ==
    /\ [][(executor = "links_to_soups" /\ mpc = "loop" /\ mpc' = "yield")
            => /\ Head(result_queue) \in Tasks
               /\ yielded' = [yielded EXCEPT ![Head(result_queue)] = 1]]_vars
    /\ [](\A t \in Tasks : yielded[t] <= 1 /\ (yielded[t] = 1 => succeeded[t]))
    /\ [](DOMAIN yielded = Tasks)
    /\ [](SoupsDrained => \A t \in Tasks : succeeded[t] => yielded[t] = 1)

\* The run returned after two results: the pair of the second entry, which
\* was yielded, and a None put for the first entry, which was not.
C15_Witness ==
    /\ executor = "links_to_soups"
    /\ mpc = "done" /\ n_tasks = 2 /\ scraped = 2
    /\ yielded[2] = 1 /\ succeeded[2]
    /\ produced[1] = 1 /\ ~succeeded[1] /\ yielded[1] = 0

\* C17: scrape_BFO_odds is never ended by an exception: a None item on the
\* result queue and a profile with a date that could not be parsed are
\* passed over and the remaining results consumed.
C17_PartialFailuresNeverAbort ==
    executor = "scrape_BFO_odds" => mpc # "raised"

\* The tasks that wait on the task queue.
TasksWaiting == {task_queue[i] : i \in DOMAIN task_queue} \ {None}

\* C31: a task is taken from the task queue by one worker, once: a worker
\* that takes a task takes one that waited and that no other worker holds or
\* has held, a task taken never waits again, and no worker has exited while
\* a task waits on the queue.
C31_OneWorkerPerTask ==
    /\ [][\A w \in Workers, t \in Tasks :
            /\ (wtask'[w] = t /\ wtask[w] # t)
                  => /\ tstate[t] = "queued"
                     /\ t = Head(task_queue)
                     /\ t \notin TasksWaiting'
                     /\ \A v \in Workers \ {w} : wtask'[v] # t
            /\ tstate[t] # "queued" => tstate'[t] # "queued"]_vars
    /\ [](\A t \in Tasks : (tstate[t] = "queued") = (t \in TasksWaiting))
    /\ [](\A v, w \in Workers : (v # w /\ wtask[v] # None) => wtask[v] # wtask[w])
    /\ []((\E w \in Workers : wpc[w] = "exited") => TasksWaiting = {})

\* The caller closed links_to_soups at its first pair; the sentinels went
\* behind what waited on the task queue, both tasks were executed once by
\* the two workers, and both workers took a sentinel and exited.
C31_Witness ==
    /\ executor = "links_to_soups"
    /\ n_sessions = 2
    /\ n_tasks = 2
    /\ mpc = "done"
    /\ scraped = 1
    /\ \A t \in Tasks : tstate[t] = "handled" /\ runs[t] = 1

(***************************************************************************)
(* PART 3.  Incremental scraping: EventScraper.scrape_events               *)
(* (event_scraper.py); scrape_fighters and scrape_fights filter the listed *)
(* URLs the same way (fighter_scraper.py 48-50, fight_scraper.py 101-103). *)
(*                                                                         *)
(* A URL is the sequence of the pieces between its "/" characters, so a    *)
(* URL ending in "/" ends with the empty piece.  The scraper is a record   *)
(* store of Part 1: its file, its data and its construction are those.     *)
(***************************************************************************)

\* BaseScraper.web_url = "http://www.ufcstats.com"
web_url == <<"http:", "", "www.ufcstats.com">>

\* url_from_id: f"{cls.web_url}/event-details/{id_}"
url_from_id(id_) == web_url \o <<"event-details", id_>>

\* id_from_url: a trailing "/" is dropped, then url.split("/")[-1].
RECURSIVE id_from_url(_)
id_from_url(url) ==
    IF url[Len(url)] = ""
    THEN id_from_url(SubSeq(url, 1, Len(url) - 1))
    ELSE url[Len(url)]

\* f"{id_}" of a value of self.data["event_id"].
format_id(cell) == IF cell = NaN THEN "nan" ELSE cell[2]

\* The hrefs a listing page may hold for an event: with or without a
\* trailing "/".  A listing links each event once.
ListedURLs ==
    {url_from_id(i) : i \in Ids} \cup {url_from_id(i) \o <<"">> : i \in Ids}
Listings ==
    {L \in SUBSET ListedURLs :
        \A u, v \in L : id_from_url(u) = id_from_url(v) => u = v}

ScrapeInit ==
    /\ is_file \in BOOLEAN
    /\ file \in (IF is_file THEN Files ELSE {<<>>})
    /\ data = <<>>
    /\ op = "none"
    /\ dropped = 0
    /\ listing \in Listings
    /\ fetched = {}
    /\ complete = FALSE
    /\ ExecIdle
    /\ OddsIdle
    /\ ResolveIdle
    /\ PagesIdle
    /\ StatsIdle
    /\ WinnerIdle
    /\ FightsIdle
    /\ RunsIdle
    /\ ScriptIdle
    /\ NamesIdle

\* scrape_events.  `order` lists the URLs whose page was fetched and parsed,
\* in the order links_to_soups yielded them (a set is iterated in any
\* order); a page that yields no soup or fails to parse writes no row.
scrape_events(order) ==
    LET existing_urls == {url_from_id(format_id(data[j][1])) : j \in DOMAIN data}
        urls_to_scrape == listing \ existing_urls
    IN  /\ op # "none"
        /\ Len(file) <= 1 + MaxRows
        /\ Range(order) \subseteq urls_to_scrape
        /\ \A i, j \in DOMAIN order : order[i] = order[j] => i = j
        /\ file' = file \o [k \in DOMAIN order |-> <<id_from_url(order[k]), "x">>]
        /\ fetched' = urls_to_scrape
        /\ complete' = (Range(order) = urls_to_scrape)
        /\ op' = "scrape_events"
        /\ dropped' = 0
        /\ UNCHANGED <<is_file, data, listing, notScrape>>

ScrapeNext ==
    \/ Construct
    \/ \E order \in SeqsUpTo(listing, Cardinality(listing)) : scrape_events(order)

SpecScrape == ScrapeInit /\ [][ScrapeNext]_vars

(***************************************************************************)
(* Claims about incremental scraping                                       *)
(***************************************************************************)

\* The ids self.data holds, as loaded at construction.
LoadedIds == {format_id(data[j][1]) : j \in DOMAIN data}

\* C4: scrape_events fetches a detail page only if the id of its listed URL
\* (id_from_url) is not among the ids loaded at construction; hence a scrape
\* by a freshly constructed scraper, after a scrape that wrote a row for
\* every page it had to fetch and over the same listing, fetches no page and
\* appends no row.
C4_IncrementalIdempotent ==
    [][op' = "scrape_events" =>
        /\ \A u \in fetched' : id_from_url(u) \notin LoadedIds
        /\ (op = "init" /\ complete) => (fetched' = {} /\ file' = file)]_vars

(***************************************************************************)
(* Fuzzy name matching: fuzzywuzzy's process.extractOne with               *)
(* scorer=fuzz.token_sort_ratio, as called by odds_scraper.py and          *)
(* bets_scraper.py.                                                        *)
(***************************************************************************)

\* token_sort_ratio first puts a name in lower case and sorts its words.
process_and_sort(name) ==
    CASE name = "Alex Perez" -> "alex perez"
      [] name = "Alex Peres" -> "alex peres"
      [] name = "Paulo Costa" -> "costa paulo"
      [] name = "Costa Paulo" -> "costa paulo"
      [] name = "Paolo Costa" -> "costa paolo"

\* Then the similarity of the two strings in percent: 100 for equal strings,
\* 90 for one letter of ten changed, 91 for one letter of eleven changed;
\* the unrelated names of the model all score below 50.
ratio(s, t) ==
    IF s = t THEN 100
    ELSE IF {s, t} = {"alex perez", "alex peres"} THEN 90
    ELSE IF {s, t} = {"costa paulo", "costa paolo"} THEN 91
    ELSE 30

token_sort_ratio(a, b) == ratio(process_and_sort(a), process_and_sort(b))

\* max(pairs, key=lambda x: x[1]): the first pair with the greatest score.
max_by_score(pairs) ==
    pairs[CHOOSE k \in DOMAIN pairs :
            /\ \A j \in DOMAIN pairs : pairs[j][2] <= pairs[k][2]
            /\ \A j \in 1..(k - 1) : pairs[j][2] < pairs[k][2]]

\* process.extractOne(query, choices, scorer=fuzz.token_sort_ratio), for a
\* non-empty list of choices: <<choice, score>>.
extractOne(query, choices) ==
    max_by_score([k \in DOMAIN choices |->
                    <<choices[k], token_sort_ratio(query, choices[k])>>])

\* list.index(x): the first position of x.
index(list, x) ==
    CHOOSE i \in DOMAIN list : list[i] = x /\ \A j \in 1..(i - 1) : list[j] # x

(***************************************************************************)
(* PART 4.  The BestFightOdds matcher: the consuming loop of               *)
(* BestFightOddsScraper.scrape_BFO_odds (odds_scraper.py 620-728).         *)
(*                                                                         *)
(* Two fighters of UFCStats, A and B, fought each other on day 10.  The    *)
(* result of a fighter is the list of the fights of its BestFightOdds      *)
(* profile: a date, the opponent (id and name of BestFightOdds) and the    *)
(* opening odds (the closing range is written beside it from the same      *)
(* position).                                                              *)
(***************************************************************************)

\* The fights in all results together.
MaxProfile == 2

\* BestFightOddsScraper.min_score
min_score == 90

Fighters == {"A", "B"}
UFC_names == [f \in Fighters |-> IF f = "A" THEN "Alex Perez" ELSE "Paulo Costa"]

\* The rows of data_to_scrape: one per fight and fighter.
data_to_scrape ==
    << [fight_id |-> "f1", fighter_id |-> "A", opponent_id |-> "B", event_date |-> 10],
       [fight_id |-> "f1", fighter_id |-> "B", opponent_id |-> "A", event_date |-> 10] >>

\* The fighters of BestFightOdds: <<id, name>>.
BFOFighters == {<<"Alex-Perez-1", "Alex Perez">>,
                <<"Paulo-Costa-2", "Paulo Costa">>,
                <<"Paolo-Costa-3", "Paolo Costa">>}

\* The profile a fighter's result comes from (fighter_BFO_ids and
\* fighter_BFO_names hold it at every position).
fighter_BFO(f) ==
    IF f = "A" THEN <<"Alex-Perez-1", "Alex Perez">>
               ELSE <<"Paulo-Costa-2", "Paulo Costa">>

\* The dates of a profile: one day and two days after the fight.
Dates == {11, 12}
Openings == {-150, 130}
Entry == [date : Dates, opponent : BFOFighters, opening : Openings]

\* The BestFightOdds rows the fighter-names file may hold before the run.
BFORows == {<<f, "BestFightOdds", fighter_BFO(f)[2], fighter_BFO(f)[1]>> : f \in Fighters}

OddsInit ==
    /\ \E ra \in SeqsUpTo(Entry, MaxProfile) :
         \E rb \in SeqsUpTo(Entry, MaxProfile - Len(ra)) :
            results = [f \in Fighters |-> IF f = "A" THEN ra ELSE rb]
    /\ f_names \in {s \in SeqsUpTo(BFORows, Cardinality(BFORows)) :
                        \A i, j \in DOMAIN s : s[i] = s[j] => i = j}
    /\ fighter_names_data = Range(f_names)
    /\ f_odds = <<>>
    /\ odds_log = <<>>
    /\ fighters_done = {}
    /\ StoreIdle
    /\ ExecIdle
    /\ ScrapeIdle
    /\ ResolveIdle
    /\ PagesIdle
    /\ StatsIdle
    /\ WinnerIdle
    /\ FightsIdle
    /\ RunsIdle
    /\ ScriptIdle
    /\ NamesIdle

Abs(x) == IF x < 0 THEN -x ELSE x

\* A slip in the window: abs(...) <= 2.5.
candidates_indxs_two_days(result, date) ==
    SelectSeq([i \in 1..Len(result) |-> i],
              LAMBDA i : 2 * Abs(result[i].date - date) <= 5)

\* candidates_indxs: the positions whose date is within 1.5 days of `date`.
candidates_indxs(result, date) ==
    SelectSeq([i \in 1..Len(result) |-> i],
              LAMBDA i : 2 * Abs(result[i].date - date) <= 3)

\* possible_opponents: opponents_BFO_names at the candidate positions.
possible_opponents(result, date) ==
    LET c == candidates_indxs(result, date)
    IN  [k \in DOMAIN c |-> result[c[k]].opponent[2]]

\* scores, then max(scores, key=...): <<best_name, score>>.  Each score is
\* extractOne of a candidate's name against the candidates' names.
best_match(result, date) ==
    LET po == possible_opponents(result, date)
    IN  max_by_score([k \in DOMAIN po |-> extractOne(po[k], po)])

\* best_index = opponents_BFO_names.index(best_name)
best_index(result, date) ==
    index([i \in DOMAIN result |-> result[i].opponent[2]],
          best_match(result, date)[1])

\* Whether the row of the group gets an odds row.
accepted(result, row) ==
    /\ candidates_indxs(result, row.event_date) # <<>>
    /\ best_match(result, row.event_date)[2] > min_score

\* in_database: the triple <<id_, bfo_id, name>> is a BestFightOdds row of
\* self.fighter_names.data.
in_database(t) ==
    \E r \in fighter_names_data :
        r[1] = t[1] /\ r[2] = "BestFightOdds" /\ r[4] = t[2] /\ r[3] = t[3]

\* BestFightOddsScraper.columns
odds_columns ==
    <<"fight_id", "fighter_id", "opening", "closing_range_min",
      "closing_range_max">>

\* How csv.writer spells a field: None as the empty field, a number in
\* digits, a string as it is.
csv_field(v) == IF v = None THEN "" ELSE ToString(v)

\* The row writer_odds.writerow is given for a row of the group and the
\* position chosen, as the file holds it.  The profiles of the model state
\* a closing range that is the opening odds at both ends; a fight without
\* odds has None for all three (extract_odds_from_fighter_profile).
odds_row(row, entry) ==
    <<row.fight_id, row.fighter_id, csv_field(entry.opening),
      csv_field(entry.opening), csv_field(entry.opening)>>

\* All orders in which a set may be iterated.
Orders(S) ==
    {o \in [1..Cardinality(S) -> S] : \A i, j \in DOMAIN o : o[i] = o[j] => i = j}

\* One turn of the loop for a result that is not None: the rows of the
\* fighter's group are matched and written, then the names confirmed by
\* them are written unless self.fighter_names.data has them.
ConsumeResult(fighter_id) ==
    LET result == results[fighter_id]
        group == SelectSeq(data_to_scrape, LAMBDA row : row.fighter_id = fighter_id)
        hits == SelectSeq(group, LAMBDA row : accepted(result, row))
        chosen(row) == result[best_index(result, row.event_date)]
        new_BFO_names ==
            UNION {{<<row.opponent_id, chosen(row).opponent[1], chosen(row).opponent[2]>>,
                    <<row.fighter_id, fighter_BFO(fighter_id)[1], fighter_BFO(fighter_id)[2]>>}
                   : row \in Range(hits)}
    IN  /\ fighter_id \in Fighters \ fighters_done
        /\ f_odds' = f_odds \o [k \in DOMAIN hits |->
                        odds_row(hits[k], chosen(hits[k]))]
        /\ odds_log' = odds_log \o [k \in DOMAIN hits |->
                        [row |-> hits[k], candidate |-> chosen(hits[k])]]
        /\ \E order \in Orders(new_BFO_names) :
             LET missing == SelectSeq(order, LAMBDA t : ~in_database(t))
             IN  f_names' = f_names \o [k \in DOMAIN missing |->
                    <<missing[k][1], "BestFightOdds", missing[k][3], missing[k][2]>>]
        /\ fighters_done' = fighters_done \cup {fighter_id}
        /\ UNCHANGED <<results, fighter_names_data, notOdds>>

OddsNext == \E fighter_id \in Fighters : ConsumeResult(fighter_id)

SpecOdds == OddsInit /\ [][OddsNext]_vars

\* The matcher on profiles that differ in their dates and odds only: every
\* fight of a profile is against the opponent of the record, from two days
\* before the record's date to two days after it, with opening odds or
\* without (the moneyline cell is empty: None), and the names file is empty.
WindowDates == {8, 9, 10, 11, 12}

WindowEntry(f) ==
    [date : WindowDates,
     opponent : {fighter_BFO(CHOOSE g \in Fighters : g # f)},
     opening : {-150, None}]

WindowInit ==
    /\ \E ra \in SeqsUpTo(WindowEntry("A"), MaxProfile) :
         \E rb \in SeqsUpTo(WindowEntry("B"), MaxProfile - Len(ra)) :
            results = [f \in Fighters |-> IF f = "A" THEN ra ELSE rb]
    /\ f_names = <<>>
    /\ fighter_names_data = {}
    /\ f_odds = <<>>
    /\ odds_log = <<>>
    /\ fighters_done = {}
    /\ StoreIdle
    /\ ExecIdle
    /\ ScrapeIdle
    /\ ResolveIdle
    /\ PagesIdle
    /\ StatsIdle
    /\ WinnerIdle
    /\ FightsIdle
    /\ RunsIdle
    /\ ScriptIdle
    /\ NamesIdle

SpecWindow == WindowInit /\ [][OddsNext]_vars

(***************************************************************************)
(* Claims about the matcher                                                *)
(***************************************************************************)

\* C5: an odds row is written for a fight record only if a candidate lies in
\* the record's date window and the token-sort similarity between the
\* UFCStats name of the record's opponent and the selected candidate's
\* opponent name is greater than min_score.
C5_WrittenOnlyOnNameMatch ==
    \A k \in DOMAIN odds_log :
        LET e == odds_log[k]
        IN  /\ \E i \in DOMAIN results[e.row.fighter_id] :
                  2 * Abs(results[e.row.fighter_id][i].date - e.row.event_date) <= 3
            /\ token_sort_ratio(UFC_names[e.row.opponent_id], e.candidate.opponent[2])
                  > min_score

\* C6: the fighter-names file never holds the same identity row twice, also
\* when a triple is confirmed by the results of both fighters of a fight.
C6_NamesWrittenOnce ==
    \A i, j \in DOMAIN f_names : f_names[i] = f_names[j] => i = j

\* C18: for every row of a fighter's group, a position of the fighter's
\* result is among candidates_indxs if and only if its date is at most one
\* whole day from the row's date, before or after; a row for which no
\* position is gets no odds row.
C18_WindowIsOneDay ==
    \A row \in Range(data_to_scrape) :
        LET result == results[row.fighter_id]
            near == {i \in DOMAIN result :
                        result[i].date \in {row.event_date - 1, row.event_date,
                                            row.event_date + 1}}
        IN  /\ Range(candidates_indxs(result, row.event_date)) = near
            /\ (near = {} /\ row.fighter_id \in fighters_done)
                    => \A k \in DOMAIN odds_log : odds_log[k].row # row

\* The result of a fighter held a fight the day before the record and one
\* two days after it, and its turn of the loop wrote the row of the former.
C18_Witness ==
    \E f \in fighters_done :
        /\ Len(results[f]) = 2
        /\ results[f][1].date = 9
        /\ results[f][2].date = 12
        /\ candidates_indxs(results[f], 10) = <<1>>
        /\ \E k \in DOMAIN odds_log :
              /\ odds_log[k].row.fighter_id = f
              /\ odds_log[k].candidate = results[f][1]

\* C24: every row of the odds file has one field for each declared column,
\* the fight and the fighter of the record first, and where the position
\* chosen has no odds the three odds fields read "NULL".
C24_OddsRowsFillColumns ==
    \A k \in DOMAIN f_odds :
        /\ Len(f_odds[k]) = Len(odds_columns)
        /\ f_odds[k][1] = odds_log[k].row.fight_id
        /\ f_odds[k][2] = odds_log[k].row.fighter_id
        /\ odds_log[k].candidate.opening = None
              => \A c \in 3..5 : f_odds[k][c] = "NULL"

\* C28: the entry whose odds and names are written for a row is at one of
\* the candidate positions of that row: its date is at most one day from the
\* row's date, also when the result holds the same opponent more than once.
C28_WrittenEntryInWindow ==
    \A k \in DOMAIN odds_log :
        LET row == odds_log[k].row
            result == results[row.fighter_id]
        IN  /\ odds_log[k].candidate.date \in
                    {row.event_date - 1, row.event_date, row.event_date + 1}
            /\ \E c \in Range(candidates_indxs(result, row.event_date)) :
                    /\ result[c] = odds_log[k].candidate
                    /\ f_odds[k] = odds_row(row, result[c])

MaxNames == 2

Names == {"Alex Perez", "Alex Peres", "Paulo Costa", "Paolo Costa", "Costa Paulo"}

\* Rows <<fighter_id, name>> of the names table.
UFCStatsRows == {<<"A", "Alex Perez">>, <<"B", "Paulo Costa">>, <<"C", "Costa Paulo">>}
Bet365Rows == {<<"A", "Alex Peres">>, <<"B", "Paolo Costa">>}

\* FighterNames.check_fighter_id(name, "bet365"): the exact lookup of the
\* name among the rows of that database; the fighter_id, or "" for none.
check_fighter_id(name) ==
    IF \E r \in bet365_names : r[2] = name
    THEN (CHOOSE r \in bet365_names : r[2] = name)[1]
    ELSE ""

\* What a call does: return a value, or raise.
Return(v) == [kind |-> "return", value |-> v]
Raise(e) == [kind |-> e, value |-> <<>>]

\* A slip in _get_fighter_id: a score at the threshold is accepted.
get_fighter_id_at_threshold(name) ==
    LET fighter_id == check_fighter_id(name)
        names == [k \in DOMAIN ufcstats_names |-> ufcstats_names[k][2]]
    IN  IF fighter_id # "" THEN Return(<<fighter_id>>)
        ELSE IF names = <<>> THEN Raise("TypeError")
        ELSE LET best == extractOne(name, names)
             IN  IF best[2] >= 90
                 THEN Return(<<ufcstats_names[index(names, best[1])][1]>>)
                 ELSE Raise("ValueError")

\* A slip in _get_fighter_id: the fuzzy match is tried first and the exact
\* lookup only when it fails.
get_fighter_id_fuzzy_first(name) ==
    LET fighter_id == check_fighter_id(name)
        names == [k \in DOMAIN ufcstats_names |-> ufcstats_names[k][2]]
        best == extractOne(name, names)
    IN  IF names # <<>> /\ best[2] > 90
        THEN Return(<<ufcstats_names[index(names, best[1])][1]>>)
        ELSE IF fighter_id # "" THEN Return(<<fighter_id>>)
        ELSE IF names = <<>> THEN Raise("TypeError")
        ELSE Raise("ValueError")

\* _get_fighter_id(name).  extractOne of an empty list is None, which the
\* assignment to best_name, score cannot unpack.
get_fighter_id(name) ==
    LET fighter_id == check_fighter_id(name)
        names == [k \in DOMAIN ufcstats_names |-> ufcstats_names[k][2]]
    IN  IF fighter_id # "" THEN Return(<<fighter_id>>)
        ELSE IF names = <<>> THEN Raise("TypeError")
        ELSE LET best == extractOne(name, names)
             IN  IF best[2] > 90
                 THEN Return(<<ufcstats_names[index(names, best[1])][1]>>)
                 ELSE Raise("ValueError")

\* BestFightOddsScraper.web_url and the href of a search result.
BFO_web_url == <<"https:", "", "www.bestfightodds.com">>
href(id_) == <<"", "fighters", id_>>

\* The pages a search may show: a list of results (rows <<href, name>>), the
\* profile of a fighter the site redirected to, or a paragraph of text.
Pages ==
    {[kind |-> "content-list", rows |-> r, fighter |-> ""] :
        r \in SeqsUpTo({<<href(b[1]), b[2]>> : b \in BFOFighters}, MaxNames)}
    \cup {[kind |-> "team-stats-table", rows |-> <<>>, fighter |-> b[2]] : b \in BFOFighters}
    \cup {[kind |-> "p", rows |-> <<>>, fighter |-> ""]}

\* search_fighter_profile(search_fighter, driver) when the search shows pg.
search_fighter_profile(search_fighter, pg) ==
    IF pg.kind = "team-stats-table"
    THEN Return(<<pg.fighter, "driver.current_url">>)
    ELSE IF pg.kind = "content-list"
    THEN LET fighters_names == [k \in DOMAIN pg.rows |-> pg.rows[k][2]]
             fighters_urls == [k \in DOMAIN pg.rows |-> pg.rows[k][1]]
         IN  IF fighters_names = <<>> THEN Raise("TypeError")
             ELSE LET best == extractOne(search_fighter, fighters_names)
                  IN  IF best[2] > min_score
                      THEN Return(<<best[1],
                               BFO_web_url \o Tail(fighters_urls[index(fighters_names, best[1])])>>)
                      ELSE Return(<<>>)
    ELSE Return(<<>>)

ResolveInit ==
    /\ ufcstats_names \in SeqsUpTo(UFCStatsRows, MaxNames)
    /\ bet365_names \in SUBSET Bet365Rows
    /\ call = "none"
    /\ arg = ""
    /\ page = NoPage
    /\ outcome = NoOutcome
    /\ StoreIdle
    /\ ExecIdle
    /\ ScrapeIdle
    /\ OddsIdle
    /\ PagesIdle
    /\ StatsIdle
    /\ WinnerIdle
    /\ FightsIdle
    /\ RunsIdle
    /\ ScriptIdle
    /\ NamesIdle

\* A slip in the resolver: a name resolved by the fuzzy match is written back
\* as a bet365 row.
GetFighterIdWritingBack(name) ==
    /\ call' = "_get_fighter_id"
    /\ arg' = name
    /\ page' = NoPage
    /\ outcome' = get_fighter_id(name)
    /\ bet365_names' =
          IF check_fighter_id(name) = "" /\ outcome'.kind = "return"
          THEN bet365_names \cup {<<outcome'.value[1], name>>}
          ELSE bet365_names
    /\ UNCHANGED <<ufcstats_names, notResolve>>

GetFighterId(name) ==
    /\ call' = "_get_fighter_id"
    /\ arg' = name
    /\ page' = NoPage
    /\ outcome' = get_fighter_id(name)
    /\ UNCHANGED <<ufcstats_names, bet365_names, notResolve>>

SearchFighterProfile(name, pg) ==
    /\ call' = "search_fighter_profile"
    /\ arg' = name
    /\ page' = pg
    /\ outcome' = search_fighter_profile(name, pg)
    /\ UNCHANGED <<ufcstats_names, bet365_names, notResolve>>

ResolveNext ==
    \/ \E name \in Names : GetFighterId(name)
    \/ \E name \in Names, pg \in Pages : SearchFighterProfile(name, pg)

SpecResolve == ResolveInit /\ [][ResolveNext]_vars

(***************************************************************************)
(* Claims about identity resolution                                        *)
(***************************************************************************)

\* The greatest token-sort score of `name` against a non-empty list.
BestScore(name, names) ==
    CHOOSE sc \in {token_sort_ratio(name, names[k]) : k \in DOMAIN names} :
        \A k \in DOMAIN names : token_sort_ratio(name, names[k]) <= sc

\* The call was a fuzzy lookup: no exact match, and a list to match against.
FuzzyLookup == call = "_get_fighter_id" /\ check_fighter_id(arg) = "" /\ ufcstats_names # <<>>
FuzzySearch == call = "search_fighter_profile" /\ page.kind = "content-list" /\ page.rows # <<>>

\* C7: when a name has no exact match, _get_fighter_id returns the fighter of
\* the best fuzzy match if its score is greater than 90 and raises ValueError
\* otherwise: a best score of 90 is rejected, one of 91 accepted.  In the
\* same way search_fighter_profile returns a profile from a result list if
\* and only if the best score is greater than min_score.
C7_StrictThreshold ==
    /\ FuzzyLookup =>
        LET sc == BestScore(arg, [k \in DOMAIN ufcstats_names |-> ufcstats_names[k][2]])
        IN  /\ sc > 90 => /\ outcome.kind = "return"
                          /\ \E r \in Range(ufcstats_names) :
                                /\ outcome.value = <<r[1]>>
                                /\ token_sort_ratio(arg, r[2]) = sc
            /\ sc <= 90 => outcome = Raise("ValueError")
    /\ FuzzySearch =>
        LET sc == BestScore(arg, [k \in DOMAIN page.rows |-> page.rows[k][2]])
        IN  /\ sc > min_score => /\ outcome.kind = "return"
                                 /\ Len(outcome.value) = 2
                                 /\ token_sort_ratio(arg, outcome.value[1]) = sc
            /\ sc <= min_score => outcome = Return(<<>>)

\* A name whose best match scores exactly 90 was looked up and rejected.
C7_Witness ==
    /\ FuzzyLookup
    /\ BestScore(arg, [k \in DOMAIN ufcstats_names |-> ufcstats_names[k][2]]) = 90
    /\ outcome = Raise("ValueError")

data_rows(df) == {[c \in 1..NCols |-> df[i][c][2]] : i \in DOMAIN df}

\* scrape_ufcstats_data.main: UFCScraper(...) constructs the handlers, the
\* three scrapes append `rows`, then UFCScraper.remove_duplicates_from_file.
ufcstats_main(rows) ==
    LET f1 == remove_duplicates_from_file(check_data_file(is_file, file))
        f2 == f1 \o rows
    IN  /\ Len(f1) <= 1 + MaxRows
        /\ is_file' = TRUE
        /\ data' = load_data(f1)
        /\ file' = remove_duplicates_from_file(f2)
        /\ dropped' = Len(f2) - Len(file')
        /\ op' = "scrape_ufcstats_data.main"
        /\ UNCHANGED notStore

\* scrape_bestfightodds_data.main on the fighter-names file:
\* BestFightOddsScraper(...) constructs FighterNames, scrape_BFO_odds runs
\* check_missing_records on the rows `recs` of get_ufcstats_data and then
\* appends the names `rows` its results confirm, each of them not in
\* self.fighter_names.data.  main returns when scrape_BFO_odds does.
bestfightodds_main(recs, rows) ==
    LET f1 == remove_duplicates_from_file(check_data_file(is_file, file))
        f2 == IF check_missing(load_data(f1), recs) THEN f1 \o recs ELSE f1
    IN  /\ Len(f1) <= 1 + MaxRows
        /\ Range(rows) \cap data_rows(load_data(f2)) = {}
        /\ is_file' = TRUE
        /\ data' = load_data(f2)
        /\ file' = f2 \o rows
        /\ dropped' = 0
        /\ op' = "scrape_bestfightodds_data.main"
        /\ UNCHANGED notStore

SessionNext ==
    \/ \E rows \in SeqsUpTo(Row, MaxRecs) : ufcstats_main(rows)
    \/ \E recs \in SeqsUpTo({<<i, "x">> : i \in Ids}, MaxRecs),
          rows \in SeqsUpTo(Row, MaxRecs) : bestfightodds_main(recs, rows)

SpecSession == StoreInit /\ [][SessionNext]_vars

\* C11: when the main of either script has returned, the store file holds
\* no two identical rows.
C11_SessionEndsDeduplicated ==
    op \in {"scrape_ufcstats_data.main", "scrape_bestfightodds_data.main"}
        => NoDuplicates(Tail(file))

(***************************************************************************)
(* PART 7.  The loop over the fetched pages in scrape_events,              *)
(* scrape_fighters and scrape_fights.  The body of the try block is the    *)
(* list of its statements in program order; a page is described by the     *)
(* first statement that raises on it.  A round row is written as its key   *)
(* <<fight_id, fighter, round>>, a data row as the id of its URL.          *)
(***************************************************************************)
MaxPages == 2
MaxFinishRound == 2

\* event_scraper.py: the statements of the try block.
scrape_events_body ==
    <<"full_location", "event_name", "event_date", "writer.writerow">>

\* fighter_scraper.py: the statements of the try block.
scrape_fighters_body ==
    <<"name", "nickname", "details", "record", "f_name", "l_name",
      "nickname_str", "height", "weight", "reach", "stance", "dob", "w", "l",
      "d", "nc_dq", "writer.writerow">>

\* A slip in scrape_fights: the round rows are written as soon as
\* finish_round is known.
scrape_fights_body_rounds_early ==
    <<"event_id", "referee", "fighters", "num_rounds", "title_fight",
      "weight_class", "gender", "result", "finish_round",
      "writer_rounds.writerow", "finish_time", "winner", "time_format",
      "fight_id", "writer_fights.writerow">>

\* fight_scraper.py: the statements of the try block; the round rows are
\* written before the fight row.
scrape_fights_body ==
    <<"event_id", "referee", "fighters", "num_rounds", "title_fight",
      "weight_class", "gender", "result", "finish_round", "finish_time",
      "winner", "time_format", "fight_id", "writer_rounds.writerow",
      "writer_fights.writerow">>

Writes == {"writer.writerow", "writer_rounds.writerow", "writer_fights.writerow"}

\* get_referee catches everything and the writes are on open files: every
\* other statement indexes or parses what the page holds and can raise.
Raising(body) == Range(body) \ (Writes \cup {"referee"})

\* The statements of body executed on a page whose statement `raises`
\* raises ("none": no statement does): those before it.
RECURSIVE executed(_, _)
executed(body, raises) ==
    IF body = <<>> \/ Head(body) = raises
    THEN {}
    ELSE {Head(body)} \cup executed(Tail(body), raises)

\* for j, fighter_id in enumerate(...): for round_ in range(1, finish_round + 1)
round_rows(fight_id, n) ==
    [i \in 1..(2 * n) |-> <<fight_id, (i - 1) \div n, ((i - 1) % n) + 1>>]

PageIds == 1..MaxPages

\* The statements of the routine that runs.
body_of(r) ==
    IF r = "scrape_events" THEN scrape_events_body
    ELSE IF r = "scrape_fighters" THEN scrape_fighters_body
    ELSE scrape_fights_body

\* A fetched page is the id in its URL, the statement that raises on it and
\* the finish round it states (1 where no statement gets to use it).
\* urls_to_scrape is a set: links_to_soups yields each URL at most once.
PagesInit ==
    /\ routine \in {"scrape_events", "scrape_fighters", "scrape_fights"}
    /\ \E n \in 0..MaxPages :
        \E us \in {u \in [1..n -> PageIds] :
                      \A i, j \in 1..n : u[i] = u[j] => i = j} :
        \E xs \in [1..n -> Raising(body_of(routine)) \cup {"none"}] :
        \E ns \in {m \in [1..n -> 1..MaxFinishRound] :
                      \A i \in 1..n :
                          (xs[i] # "none" \/ routine # "scrape_fights")
                              => m[i] = 1} :
            soups = [i \in 1..n |->
                        [url |-> us[i], raises |-> xs[i], finish_round |-> ns[i]]]
    /\ f_data = <<>>
    /\ f_rounds = <<>>
    /\ logged = <<>>
    /\ StoreIdle
    /\ ExecIdle
    /\ ScrapeIdle
    /\ OddsIdle
    /\ ResolveIdle
    /\ StatsIdle
    /\ WinnerIdle
    /\ FightsIdle
    /\ RunsIdle
    /\ ScriptIdle
    /\ NamesIdle

\* One pass of the for loop: the try block on the next page, then the
\* except clause when a statement raised.
process_page(body) ==
    LET soup == Head(soups)
        done == executed(body, soup.raises)
    IN  /\ soups # <<>>
        /\ soups' = Tail(soups)
        /\ f_rounds' = IF "writer_rounds.writerow" \in done
                       THEN f_rounds \o round_rows(soup.url, soup.finish_round)
                       ELSE f_rounds
        /\ f_data' = IF done \cap {"writer.writerow", "writer_fights.writerow"} # {}
                     THEN Append(f_data, soup.url)
                     ELSE f_data
        /\ logged' = IF soup.raises \in Range(body)
                     THEN Append(logged, soup.url)
                     ELSE logged
        /\ UNCHANGED <<routine, notPages>>

scrape_events_page == routine = "scrape_events" /\ process_page(scrape_events_body)

scrape_fighters_page ==
    routine = "scrape_fighters" /\ process_page(scrape_fighters_body)

scrape_fights_page == routine = "scrape_fights" /\ process_page(scrape_fights_body)

PagesNext ==
    \/ scrape_events_page
    \/ scrape_fighters_page
    \/ scrape_fights_page

SpecPages == PagesInit /\ [][PagesNext]_vars

\* The loop is at a page on which a statement raises.
PageRaises == soups # <<>> /\ Head(soups).raises # "none"

\* C16: a pass of the loop over a page on which a statement raises appends
\* nothing to the data file nor to the rounds file, logs the URL and leaves
\* the remaining pages to the next passes; a pass over any other page
\* appends the row of that page.
C16_FailedPageWritesNothing ==
    [][/\ soups' = Tail(soups)
       /\ IF PageRaises
          THEN /\ f_data' = f_data
               /\ f_rounds' = f_rounds
               /\ logged' = Append(logged, Head(soups).url)
          ELSE /\ f_data' = Append(f_data, Head(soups).url)
               /\ logged' = logged]_vars

\* scrape_fights went past a page on which a statement raised, wrote
\* nothing for it, and wrote the fight after it with its four round rows.
C16_Witness ==
    /\ routine = "scrape_fights"
    /\ soups = <<>>
    /\ logged = <<1>>
    /\ f_data = <<2>>
    /\ Len(f_rounds) = 4
    /\ \A i \in DOMAIN f_rounds : f_rounds[i][1] = 2

(***************************************************************************)
(* PART 8.  RoundsHandler.get_stats (fight_scraper.py 429-488).  A text is *)
(* the sequence of its tokens: " " for a blank, "of", and one token per    *)
(* word or number.  The page of a fight of P rounds holds the totals table *)
(* and one table per round of 20 cells each, then the same for the         *)
(* significant strikes with 18 cells each.                                 *)
(***************************************************************************)
MaxRound == 3

\* str.strip(): the blanks at both ends are dropped.
RECURSIVE lstrip(_)
lstrip(t) == IF t # <<>> /\ Head(t) = " " THEN lstrip(Tail(t)) ELSE t

RECURSIVE rstrip(_)
rstrip(t) ==
    IF t # <<>> /\ t[Len(t)] = " " THEN rstrip(SubSeq(t, 1, Len(t) - 1)) ELSE t

strip(t) == rstrip(lstrip(t))

\* str.split(" of "): the pieces between the occurrences of the separator.
RECURSIVE split_of(_)
split_of(t) ==
    LET at == {i \in 1..(Len(t) - 2) : SubSeq(t, i, i + 2) = <<" ", "of", " ">>}
    IN  IF at = {}
        THEN <<t>>
        ELSE LET i == CHOOSE j \in at : \A k \in at : j <= k
             IN  <<SubSeq(t, 1, i - 1)>> \o split_of(SubSeq(t, i + 3, Len(t)))

\* list[i] of Python: positions count from 0, negative ones from the end.
in_range(l, i) == -Len(l) <= i /\ i < Len(l)
getitem(l, i) == IF i >= 0 THEN l[i + 1] ELSE l[Len(l) + i + 1]

\* The 22 entries of the tuple `data`, in order: the table the cell is in,
\* its offset from the shift and the piece of the text that is taken.
fields ==
    << <<"general", 2, "text">>,
       <<"striking", 2, "[1]">>, <<"striking", 2, "[0]">>,
       <<"striking", 6, "[1]">>, <<"striking", 6, "[0]">>,
       <<"striking", 8, "[1]">>, <<"striking", 8, "[0]">>,
       <<"striking", 10, "[1]">>, <<"striking", 10, "[0]">>,
       <<"striking", 12, "[1]">>, <<"striking", 12, "[0]">>,
       <<"striking", 16, "[1]">>, <<"striking", 16, "[0]">>,
       <<"striking", 14, "[1]">>, <<"striking", 14, "[0]">>,
       <<"general", 8, "[1]">>, <<"general", 8, "[0]">>,
       <<"general", 10, "[1]">>, <<"general", 10, "[0]">>,
       <<"general", 14, "text">>,
       <<"general", 16, "text">>,
       <<"general", 18, "text">> >>

\* ("NULL",) * 22
NullRow == [k \in 1..22 |-> <<"NULL">>]

\* A slip in the offsets: the striking tables are looked for behind
\* finish_round tables of general statistics, not finish_round + 1.
get_stats_one_table_short(cells, f, r, total) ==
    LET shift_general == 20 * r + (IF f = 1 THEN 1 ELSE 0)
        shift_striking == 20 * total + 18 * r + (IF f = 1 THEN 1 ELSE 0)
        at(k) == fields[k][2] + (IF fields[k][1] = "general"
                                 THEN shift_general ELSE shift_striking)
        pieces(k) == split_of(getitem(cells, at(k)))
        raises(k) ==
            \/ ~in_range(cells, at(k))
            \/ fields[k][3] = "[1]" /\ Len(pieces(k)) < 2
        datum(k) ==
            IF fields[k][3] = "text" THEN getitem(cells, at(k))
            ELSE IF fields[k][3] = "[1]" THEN pieces(k)[2]
            ELSE pieces(k)[1]
    IN  IF f \notin {0, 1} THEN Raise("ValueError")
        ELSE IF \E k \in DOMAIN fields : raises(k) THEN Return(NullRow)
        ELSE Return([k \in DOMAIN fields |-> strip(datum(k))])

\* A slip in the decoder: each entry is guarded on its own, so that the
\* entries that cannot be read are NULL beside the ones that can.
get_stats_null_per_field(cells, f, r, total) ==
    LET shift_general == 20 * r + (IF f = 1 THEN 1 ELSE 0)
        shift_striking == 20 * (total + 1) + 18 * r + (IF f = 1 THEN 1 ELSE 0)
        at(k) == fields[k][2] + (IF fields[k][1] = "general"
                                 THEN shift_general ELSE shift_striking)
        pieces(k) == split_of(getitem(cells, at(k)))
        raises(k) ==
            \/ ~in_range(cells, at(k))
            \/ fields[k][3] = "[1]" /\ Len(pieces(k)) < 2
        datum(k) ==
            IF fields[k][3] = "text" THEN getitem(cells, at(k))
            ELSE IF fields[k][3] = "[1]" THEN pieces(k)[2]
            ELSE pieces(k)[1]
    IN  IF f \notin {0, 1} THEN Raise("ValueError")
        ELSE Return([k \in DOMAIN fields |->
                        IF raises(k) THEN <<"NULL">> ELSE strip(datum(k))])

\* A slip in the shifts: the shift of fighter 1 is left out.
get_stats_without_fighter_shift(cells, f, r, total) ==
    LET shift_general == 20 * r
        shift_striking == 20 * (total + 1) + 18 * r
        at(k) == fields[k][2] + (IF fields[k][1] = "general"
                                 THEN shift_general ELSE shift_striking)
        pieces(k) == split_of(getitem(cells, at(k)))
        raises(k) ==
            \/ ~in_range(cells, at(k))
            \/ fields[k][3] = "[1]" /\ Len(pieces(k)) < 2
        datum(k) ==
            IF fields[k][3] = "text" THEN getitem(cells, at(k))
            ELSE IF fields[k][3] = "[1]" THEN pieces(k)[2]
            ELSE pieces(k)[1]
    IN  IF f \notin {0, 1} THEN Raise("ValueError")
        ELSE IF \E k \in DOMAIN fields : raises(k) THEN Return(NullRow)
        ELSE Return([k \in DOMAIN fields |-> strip(datum(k))])

\* get_stats: the shifts, the tuple of the 22 texts inside the try block,
\* the strip of each, and the bare except that returns the NULLs.
get_stats(cells, f, r, total) ==
    LET shift_general == 20 * r + (IF f = 1 THEN 1 ELSE 0)
        shift_striking == 20 * (total + 1) + 18 * r + (IF f = 1 THEN 1 ELSE 0)
        at(k) == fields[k][2] + (IF fields[k][1] = "general"
                                 THEN shift_general ELSE shift_striking)
        pieces(k) == split_of(getitem(cells, at(k)))
        raises(k) ==
            \/ ~in_range(cells, at(k))
            \/ fields[k][3] = "[1]" /\ Len(pieces(k)) < 2
        datum(k) ==
            IF fields[k][3] = "text" THEN getitem(cells, at(k))
            ELSE IF fields[k][3] = "[1]" THEN pieces(k)[2]
            ELSE pieces(k)[1]
    IN  IF f \notin {0, 1} THEN Raise("ValueError")
        ELSE IF \E k \in DOMAIN fields : raises(k) THEN Return(NullRow)
        ELSE Return([k \in DOMAIN fields |-> strip(datum(k))])

\* The columns of a table whose cells read "X of Y": significant strikes,
\* total strikes and takedowns among the ten of the general statistics;
\* all but the fighter and the percentage among the nine of the strikes.
OfColumns(table) == IF table = "general" THEN {2, 4, 5} ELSE {1, 3, 4, 5, 6, 7, 8}

\* The text of cell i (from 0) of the page of a fight of P rounds; the
\* numbers in it tell the cell.
cell_text(P, i) ==
    LET general == i < 20 * (P + 1)
        column == IF general THEN (i % 20) \div 2
                  ELSE ((i - 20 * (P + 1)) % 18) \div 2
    IN  IF column \in OfColumns(IF general THEN "general" ELSE "striking")
        THEN <<" ", ToString(i), " ", "of", " ", ToString(1000 + i), " ">>
        ELSE <<" ", ToString(i), " ">>

page_cells(P) == [n \in 1..(38 * (P + 1)) |-> cell_text(P, n - 1)]

\* What a cell may read in place of its text.
Defects == {<<"--">>, <<"1", " ", "of", " ", "2", " ", "of", " ", "3">>}

\* The page of a fight of up to MaxRound rounds, whole or without its last
\* cell, with at most one cell that reads something else; any fighter
\* index, round and number of rounds.
StatsInit ==
    /\ \E P \in 0..MaxRound, cut \in {0, 1} :
        LET cells == SubSeq(page_cells(P), 1, 38 * (P + 1) - cut)
        IN  \/ fight_stats = cells
            \/ \E bad \in DOMAIN cells, d \in Defects :
                  fight_stats = [cells EXCEPT ![bad] = d]
    /\ fighter \in {0, 1, 2}
    /\ round_ \in -1..MaxRound
    /\ finish_round \in 0..MaxRound
    /\ stats = NoOutcome
    /\ StoreIdle
    /\ ExecIdle
    /\ ScrapeIdle
    /\ OddsIdle
    /\ ResolveIdle
    /\ PagesIdle
    /\ WinnerIdle
    /\ FightsIdle
    /\ RunsIdle
    /\ ScriptIdle
    /\ NamesIdle

GetStats ==
    /\ stats = NoOutcome
    /\ stats' = get_stats(fight_stats, fighter, round_, finish_round)
    /\ UNCHANGED <<fight_stats, fighter, round_, finish_round, notStats>>

StatsNext == GetStats

SpecStats == StatsInit /\ [][StatsNext]_vars

(***************************************************************************)
(* Claims about get_stats                                                  *)
(***************************************************************************)

\* The token of the number n, and of the number beside it in "n of 1000+n".
X(n) == <<ToString(n)>>
Y(n) == <<ToString(1000 + n)>>

\* C19: on the whole page of a fight of finish_round rounds, for fighter 0
\* or 1 and a round of the fight, get_stats returns the cells at the offsets
\* 2, 8, 10, 14, 16, 18 from 20*round_ + fighter and at 2, 6, 8, 10, 12, 16,
\* 14 from 20*(finish_round + 1) + 18*round_ + fighter, trimmed, each
\* "X of Y" as Y (attempted) then X (succeeded).
C19_RoundOffsets ==
    (/\ stats.kind = "return"
     /\ fighter \in {0, 1}
     /\ round_ \in 0..finish_round
     /\ fight_stats = page_cells(finish_round))
    => LET g == 20 * round_ + fighter
           s == 20 * (finish_round + 1) + 18 * round_ + fighter
       IN  stats.value =
             << X(g + 2),
                Y(s + 2), X(s + 2),
                Y(s + 6), X(s + 6),
                Y(s + 8), X(s + 8),
                Y(s + 10), X(s + 10),
                Y(s + 12), X(s + 12),
                Y(s + 16), X(s + 16),
                Y(s + 14), X(s + 14),
                Y(g + 8), X(g + 8),
                Y(g + 10), X(g + 10),
                X(g + 14), X(g + 16), X(g + 18) >>

\* Round 1 of 3 for fighter 0: knockdowns from cell 2 + 20, significant
\* strikes from cell 2 + 98.
C19_Witness ==
    /\ round_ = 1 /\ finish_round = 3 /\ fighter = 0
    /\ fight_stats = page_cells(3)
    /\ stats.kind = "return"
    /\ stats.value[1] = <<"22">>
    /\ stats.value[2] = <<"1100">>
    /\ stats.value[3] = <<"100">>

\* A text without a blank at either end.
Trimmed(t) == t = <<>> \/ (t[1] # " " /\ t[Len(t)] # " ")

\* C20: for fighter 0 or 1 the call returns, whatever the cells, the round
\* and the number of rounds: either the 22 NULLs, or 22 trimmed texts none
\* of which is a NULL put in for a cell that could not be read.
C20_AllOrNothing ==
    (stats # NoOutcome /\ fighter \in {0, 1})
    => /\ stats.kind = "return"
       /\ Len(stats.value) = 22
       /\ \/ stats.value = NullRow
          \/ \A k \in 1..22 : stats.value[k] # <<"NULL">> /\ Trimmed(stats.value[k])

\* The page lacks its last cell: the last round of fighter 1 is all NULL,
\* though all but one of the cells it is read from are there.
C20_Witness ==
    /\ fighter = 1
    /\ round_ = finish_round
    /\ Len(fight_stats) = 38 * (finish_round + 1) - 1
    /\ in_range(fight_stats, 2 + 20 * round_ + 1)
    /\ stats = Return(NullRow)

\* The cells of the page of a fight of F rounds that occur in a row of
\* get_stats at the entries of a table: the text of a cell tells the cell.
CellsIn(row, table, F) ==
    {n \in 0..(38 * (F + 1) - 1) :
        \E k \in DOMAIN fields :
            fields[k][1] = table /\ row[k] \in {X(n), Y(n)}}

\* C35: on the whole page of a fight of finish_round rounds, the row of a
\* fighter and a round from 1 to finish_round is read from 6 cells below
\* 20*(finish_round + 1) for its general entries and from 7 cells at or
\* above it for its striking entries, and none of these cells is read for
\* another fighter or round from 1 to finish_round.
C35_CellsOfRowsDisjoint ==
    (/\ stats.kind = "return"
     /\ fighter \in {0, 1}
     /\ round_ \in 1..finish_round
     /\ fight_stats = page_cells(finish_round))
    => LET F == finish_round
           general == CellsIn(stats.value, "general", F)
           striking == CellsIn(stats.value, "striking", F)
       IN  /\ Cardinality(general) = 6
           /\ Cardinality(striking) = 7
           /\ \A n \in general : n < 20 * (F + 1)
           /\ \A n \in striking : n >= 20 * (F + 1)
           /\ \A f \in {0, 1}, r \in 1..F :
                 <<f, r>> # <<fighter, round_>> =>
                    LET other == get_stats(fight_stats, f, r, F).value
                    IN  (general \cup striking)
                          \cap (CellsIn(other, "general", F)
                                   \cup CellsIn(other, "striking", F)) = {}

\* The last round of 3 for fighter 1: control time from cell 79, the last
\* of the general cells, ground strikes from cell 151, the last of the page.
C35_Witness ==
    /\ round_ = 3 /\ finish_round = 3 /\ fighter = 1
    /\ fight_stats = page_cells(3)
    /\ stats.kind = "return"
    /\ stats.value[22] = <<"79">>
    /\ stats.value[13] = <<"151">>

(***************************************************************************)
(* PART 9.  FightScraper.get_winner (fight_scraper.py 275-300) as          *)
(* scrape_fights calls it (line 146): the statuses are the texts of the    *)
(* two person-status elements, in the order of the page.                   *)
(***************************************************************************)

\* What a person-status element may read, blanks around it.
Statuses == {<<" ", "W", " ">>, <<" ", "L", " ">>, <<" ", "D", " ">>,
             <<" ", "NC", " ">>, <<" ">>}

FighterIds == {"a", "b", "c"}

\* get_winner: win_lose[0] and win_lose[1] raise IndexError on a shorter
\* list; the exception is caught by the loop of scrape_fights.
get_winner(f1, f2, wl) ==
    IF Len(wl) < 2 THEN Raise("IndexError")
    ELSE LET fighter_1_result == strip(wl[1])
             fighter_2_result == strip(wl[2])
         IN  IF fighter_1_result = <<"D">> /\ fighter_2_result = <<"D">>
             THEN Return(<<"Draw">>)
             ELSE IF fighter_1_result = <<"W">> THEN Return(<<f2>>)
             ELSE IF fighter_2_result = <<"W">> THEN Return(<<f1>>)
             ELSE Return(<<"NULL">>)

\* The two fighters of a fight and the statuses of its page.
WinnerInit ==
    /\ win_lose \in SeqsUpTo(Statuses, 2)
    /\ fighter_1 \in FighterIds
    /\ fighter_2 \in FighterIds \ {fighter_1}
    /\ winner = NoOutcome
    /\ StoreIdle
    /\ ExecIdle
    /\ ScrapeIdle
    /\ OddsIdle
    /\ ResolveIdle
    /\ PagesIdle
    /\ StatsIdle
    /\ FightsIdle
    /\ RunsIdle
    /\ ScriptIdle
    /\ NamesIdle

GetWinner ==
    /\ winner = NoOutcome
    /\ winner' = get_winner(fighter_1, fighter_2, win_lose)
    /\ UNCHANGED <<win_lose, fighter_1, fighter_2, notWinner>>

WinnerNext == GetWinner

SpecWinner == WinnerInit /\ [][WinnerNext]_vars

\* C21: the winner returned is "Draw" when both statuses are "D", the id
\* of the first fighter when the first status is "W", the id of the second
\* fighter when the second status is "W", and "NULL" otherwise.
C21_WinnerIsTheFighterMarked ==
    winner.kind = "return"
    => LET s1 == strip(win_lose[1])
           s2 == strip(win_lose[2])
       IN  winner.value =
             IF s1 = <<"D">> /\ s2 = <<"D">> THEN <<"Draw">>
             ELSE IF s1 = <<"W">> THEN <<fighter_1>>
             ELSE IF s2 = <<"W">> THEN <<fighter_2>>
             ELSE <<"NULL">>

(***************************************************************************)
(* PART 10.  Fight ingestion over sessions: a FightScraper is constructed  *)
(* (self.data is the fight file as it is then) and scrape_fights runs      *)
(* (fight_scraper.py 91-225).  The event store holds two events; the page  *)
(* of e1 lists the fights 1 and 2, the page of e2 the fight 3.             *)
(***************************************************************************)
Events == {"e1", "e2"}
FightsListed == {1, 2, 3}
event_of(f) == IF f = 3 THEN "e2" ELSE "e1"

\* finish_round as the page of the fight states it.
finish_round_of(f) == IF f = 2 THEN 2 ELSE 1

\* The keys of the round rows of a fight, in the order they are written.
round_keys(f) == round_rows(f, finish_round_of(f))

\* get_fight_urls: the events whose page is fetched.  Unless get_all_events
\* is set, the events that occur in self.data["event_id"] are left out.
event_ids_to_list(get_all_events) ==
    IF get_all_events
    THEN Events
    ELSE {e \in Events : e \notin {event_of(f) : f \in fight_file}}

FightsInit ==
    /\ fight_file = {}
    /\ round_file = {}
    /\ session = NoSession
    /\ interrupted = {}
    /\ StoreIdle
    /\ ExecIdle
    /\ ScrapeIdle
    /\ OddsIdle
    /\ ResolveIdle
    /\ PagesIdle
    /\ StatsIdle
    /\ WinnerIdle
    /\ RunsIdle
    /\ ScriptIdle
    /\ NamesIdle

\* One session.  `listed` are the events whose page links_to_soups yielded;
\* `fate` tells for each fight to scrape whether its rows were written,
\* it was skipped (no page, or a statement raised), or the process was
\* killed after the first k round rows of it (and the session ended there).
scrape_fights(get_all_events, listed, fate, k) ==
    LET ufcstats_fight_urls == {f \in FightsListed : event_of(f) \in listed}
        urls_to_scrape == ufcstats_fight_urls \ fight_file
        written == {f \in urls_to_scrape : fate[f] = "written"}
        killed == {f \in urls_to_scrape : fate[f] = "cut"}
    IN  /\ listed \subseteq event_ids_to_list(get_all_events)
        /\ DOMAIN fate = urls_to_scrape
        /\ Cardinality(killed) <= 1
        /\ \A f \in killed : k < Len(round_keys(f))
        /\ fight_file' = fight_file \cup written
        /\ round_file' = round_file
                \cup UNION {Range(round_keys(f)) : f \in written}
                \cup UNION {Range(SubSeq(round_keys(f), 1, k)) : f \in killed}
        /\ session' = [ran |-> TRUE,
                       get_all_events |-> get_all_events,
                       fetched |-> urls_to_scrape,
                       all_ok |-> /\ listed = event_ids_to_list(get_all_events)
                                  /\ written = urls_to_scrape]
        /\ interrupted' = (interrupted \cup killed) \ written
        /\ UNCHANGED notFights

FightsNext ==
    \E get_all_events \in BOOLEAN, listed \in SUBSET Events, k \in 1..3 :
        \E S \in SUBSET FightsListed :
            \E fate \in [S -> {"written", "skipped", "cut"}] :
                scrape_fights(get_all_events, listed, fate, k)

SpecFights == FightsInit /\ [][FightsNext]_vars

\* C27: every fight with a row in the fight file has all its round rows in
\* the rounds file, and a fight a session was killed in has no fight row and
\* is among the fights the next session fetches, when that session gets the
\* page of every event it asks for.
C27_RoundsBeforeFight ==
    /\ [](\A f \in fight_file : Range(round_keys(f)) \subseteq round_file)
    /\ [](interrupted \cap fight_file = {})
    /\ [][(session'.ran /\ session'.all_ok) => interrupted \subseteq session'.fetched]_vars

\* C29: after a session with get_all_events=False in which every fetch
\* succeeded and every page was written, every fight listed on an event of
\* the event store has a row in the fight file.
C29_DefaultRunCompletes ==
    (session.ran /\ ~session.get_all_events /\ session.all_ok)
        => fight_file = FightsListed

(***************************************************************************)
(* PART 11.  The odds store over runs of scrape_BFO_odds.  A handler is    *)
(* constructed (base.py 25-34: the file is deduplicated and self.data      *)
(* loaded) and scrape_BFO_odds runs on it (odds_scraper.py 565-734); the   *)
(* UFCStats data is the fight of PART 4.  The odds are whole numbers, so   *)
(* read_csv and to_csv spell a row the way csv.writer wrote it.            *)
(***************************************************************************)
MaxOddsRuns == 3

\* The <<fight_id, fighter_id>> of the rows of a frame, in order.
pairs_of(df) == [i \in DOMAIN df |-> <<df[i][1], df[i][2]>>]

\* The rows of the turns of the consuming loop, one after another.
RECURSIVE Flatten(_)
Flatten(ss) ==
    IF ss = <<>> THEN <<>> ELSE Head(ss) \o Flatten(Tail(ss))

\* A slip in remove_scraped_records: nothing is removed.
remove_scraped_records_keeps_all(data_, odds_data_) == data_

\* remove_scraped_records: the outer merge on fight_id and fighter_id, of
\* which the rows found in `data_` only are kept.
remove_scraped_records(data_, odds_data_) ==
    SelectSeq(data_, LAMBDA row :
        <<row.fight_id, row.fighter_id>> \notin Range(pairs_of(odds_data_)))

RunsInit ==
    /\ odds_file = <<>>
    /\ odds_data = <<>>
    /\ odds_op = "none"
    /\ odds_runs = 0
    /\ stale_run = FALSE
    /\ StoreIdle
    /\ ExecIdle
    /\ ScrapeIdle
    /\ OddsIdle
    /\ ResolveIdle
    /\ PagesIdle
    /\ StatsIdle
    /\ WinnerIdle
    /\ FightsIdle
    /\ ScriptIdle
    /\ NamesIdle

\* BestFightOddsScraper(data_folder): remove_duplicates_from_file, load_data.
ConstructOdds ==
    /\ odds_file' = drop_duplicates(odds_file)
    /\ odds_data' = drop_duplicates(odds_file)
    /\ odds_op' = "init"
    /\ UNCHANGED <<odds_runs, stale_run, notRuns>>

\* scrape_BFO_odds on the handler: the results of the fighters in `order`
\* arrive in that order, each with its row matched at the opening odds
\* opening_[f]; the other fighters' results are None or match nothing.
ScrapeBFOOdds(order, opening_) ==
    LET ufc_stats_data == data_to_scrape
        to_scrape == remove_scraped_records(ufc_stats_data, odds_data)
        group(f) == SelectSeq(to_scrape, LAMBDA row : row.fighter_id = f)
        written(f) == [k \in DOMAIN group(f) |->
                          odds_row(group(f)[k], [opening |-> opening_[f]])]
    IN  /\ odds_op \in {"init", "scrape_BFO_odds"}
        /\ odds_runs < MaxOddsRuns
        /\ \A i \in DOMAIN order : group(order[i]) # <<>>
        /\ odds_file' = odds_file \o Flatten([i \in DOMAIN order |-> written(order[i])])
        /\ odds_op' = "scrape_BFO_odds"
        /\ odds_runs' = odds_runs + 1
        /\ stale_run' = (stale_run \/ odds_op = "scrape_BFO_odds")
        /\ UNCHANGED <<odds_data, notRuns>>

RunsNext ==
    \/ ConstructOdds
    \/ \E S \in SUBSET Fighters :
         \E order \in Orders(S), opening_ \in [Fighters -> Openings] :
            ScrapeBFOOdds(order, opening_)

SpecRuns == RunsInit /\ [][RunsNext]_vars

\* The rows a step appended to the odds file.
Appended == SubSeq(odds_file', Len(odds_file) + 1, Len(odds_file'))

\* C30 as stated: after any sequence of scrape_BFO_odds runs the odds file
\* holds no two rows with the same fight_id and fighter_id.
C30_OneRowPerPair == NoDuplicates(pairs_of(odds_file))

\* C30, amended: a run writes no pair of the odds data its handler loaded
\* and no pair twice; when every run was made by a handler constructed after
\* the run before it, the odds file holds no two rows with the same
\* fight_id and fighter_id.
C30_OneRowPerPairOfFreshRuns ==
    /\ [][ odds_op' = "scrape_BFO_odds" =>
             /\ odds_file' = odds_file \o Appended
             /\ Range(pairs_of(Appended)) \cap Range(pairs_of(odds_data)) = {}
             /\ NoDuplicates(pairs_of(Appended)) ]_vars
    /\ [](~stale_run => NoDuplicates(pairs_of(odds_file)))

\* Two runs, each by a newly constructed handler, have written the rows of
\* both fighters of the fight.
C30_Witness ==
    /\ odds_runs = 2
    /\ ~stale_run
    /\ odds_op = "scrape_BFO_odds"
    /\ Len(odds_data) = 1
    /\ Len(odds_file) = 2

(***************************************************************************)
(* PART 12.  One run of scripts/scrape_ufcstats_data.py: a UFCScraper is   *)
(* constructed (its three handlers load their files), then                 *)
(* scrape_fighters, scrape_events, scrape_fights and                       *)
(* remove_duplicates_from_file run in that order.  UFCStats lists the      *)
(* events of PART 10 and a third one without fights.                       *)
(***************************************************************************)
ListedEvents == Events \cup {"e3"}

\* The fights the page of an event lists.
fights_of(e) == {f \in FightsListed : event_of(f) = e}

\* A slip in get_fight_urls: the events are those of the handler the script
\* constructed.
event_store_of_script(file_, data_) == data_

\* get_fight_urls: event_scraper = EventScraper(self.data_folder, ...), whose
\* construction loads the event file as it is now;
\* event_scraper.data["event_id"].unique().tolist().
event_store_reloaded(file_, data_) == file_

\* UFCScraper(data_folder, ...): the event file and the fight file hold what
\* earlier runs left, a fight only of an event that is stored.
ScriptInit ==
    /\ ev_file \in SUBSET ListedEvents
    /\ ev_data = ev_file
    /\ fi_file \in SUBSET {f \in FightsListed : event_of(f) \in ev_file}
    /\ fi_data = fi_file
    /\ spc = "scrape_fighters"
    /\ new_events = {}
    /\ asked = {}
    /\ pages_ok = {}
    /\ urls_fetched = {}
    /\ StoreIdle
    /\ ExecIdle
    /\ ScrapeIdle
    /\ OddsIdle
    /\ ResolveIdle
    /\ PagesIdle
    /\ StatsIdle
    /\ WinnerIdle
    /\ FightsIdle
    /\ RunsIdle
    /\ NamesIdle

\* scraper.fighter_scraper.scrape_fighters(): the fighter file alone is
\* written.
ScriptScrapeFighters ==
    /\ spc = "scrape_fighters"
    /\ spc' = "scrape_events"
    /\ UNCHANGED <<ev_file, ev_data, fi_file, fi_data, new_events, asked,
                   pages_ok, urls_fetched, notScript>>

\* scraper.event_scraper.scrape_events(): the listed events that are not in
\* self.data are fetched, and a row is appended for each page in `got`.
ScriptScrapeEvents(got) ==
    /\ spc = "scrape_events"
    /\ got \subseteq ListedEvents \ ev_data
    /\ ev_file' = ev_file \cup got
    /\ new_events' = got
    /\ spc' = "scrape_fights"
    /\ UNCHANGED <<ev_data, fi_file, fi_data, asked, pages_ok, urls_fetched,
                   notScript>>

\* scraper.fight_scraper.scrape_fights(): get_fight_urls asks the pages of
\* the stored events that have no fight in self.data, `yielded_` are those
\* links_to_soups yielded; the fights listed on them that are not in
\* self.data are fetched, and the rows of those in `written_` appended.
ScriptScrapeFights(yielded_, written_) ==
    LET event_ids == {e \in event_store_reloaded(ev_file, ev_data) :
                         e \notin {event_of(f) : f \in fi_data}}
        ufcstats_fight_urls == UNION {fights_of(e) : e \in yielded_}
        urls_to_scrape == ufcstats_fight_urls \ fi_data
    IN  /\ spc = "scrape_fights"
        /\ yielded_ \subseteq event_ids
        /\ written_ \subseteq urls_to_scrape
        /\ asked' = event_ids
        /\ pages_ok' = yielded_
        /\ urls_fetched' = urls_to_scrape
        /\ fi_file' = fi_file \cup written_
        /\ spc' = "remove_duplicates_from_file"
        /\ UNCHANGED <<ev_file, ev_data, fi_data, new_events, notScript>>

\* scraper.remove_duplicates_from_file(): no event id or fight leaves its
\* file.
ScriptRemoveDuplicates ==
    /\ spc = "remove_duplicates_from_file"
    /\ spc' = "done"
    /\ UNCHANGED <<ev_file, ev_data, fi_file, fi_data, new_events, asked,
                   pages_ok, urls_fetched, notScript>>

ScriptNext ==
    \/ ScriptScrapeFighters
    \/ \E got \in SUBSET ListedEvents : ScriptScrapeEvents(got)
    \/ \E yielded_ \in SUBSET ListedEvents, written_ \in SUBSET FightsListed :
          ScriptScrapeFights(yielded_, written_)
    \/ ScriptRemoveDuplicates

SpecScript == ScriptInit /\ [][ScriptNext]_vars

\* C33: once scrape_fights has run, the events this run's scrape_events
\* appended are not in the data of the script's event handler, yet
\* get_fight_urls asked for the page of each of them, and every fight listed
\* on such a page that was yielded is among the fights scrape_fights
\* fetched.
C33_FightsOfNewEventsFetched ==
    spc \in {"remove_duplicates_from_file", "done"} =>
        /\ new_events \cap ev_data = {}
        /\ new_events \subseteq asked
        /\ \A e \in new_events \cap pages_ok : fights_of(e) \subseteq urls_fetched

\* The run appended event e1, whose page was yielded, and fetched and wrote
\* its two fights.
C33_Witness ==
    /\ spc = "done"
    /\ "e1" \in new_events
    /\ "e1" \notin ev_data
    /\ "e1" \in pages_ok
    /\ fights_of("e1") = {1, 2}
    /\ {1, 2} \subseteq urls_fetched
    /\ {1, 2} \subseteq fi_file

(***************************************************************************)
(* PART 13.  FighterNames.check_missing_records (odds_scraper.py 747-802)  *)
(* on the four columns fighter_id, database, name, database_id.  A name    *)
(* read_csv finds missing (nan, NULL or the empty field) is the empty text *)
(* in the data.                                                            *)
(***************************************************************************)
MaxFights == 2
MaxCalls == 2

\* fighter_name of the fighter file (add_name_column).
fighter_name == [id \in FighterIds |->
    IF id = "a" THEN "Alex Perez" ELSE IF id = "b" THEN "Paulo Costa" ELSE "Costa Paulo"]

\* get_ufcstats_data: the fights with fighter_2 as fighter_id, then the
\* fights with fighter_1 as fighter_id; the left merge gives the fighter's
\* name, NaN for a fighter the fighter file does not hold.  A row is
\* <<fighter_id, fighter_name>> with the name as csv.writer spells it.
names_ufcstats_data ==
    LET ids == [k \in DOMAIN fights_loaded |-> fights_loaded[k][2]]
                 \o [k \in DOMAIN fights_loaded |-> fights_loaded[k][1]]
    IN  [k \in DOMAIN ids |->
            <<ids[k], IF ids[k] \in fighters_known THEN fighter_name[ids[k]] ELSE "nan">>]

\* A slip in the row written: the name in the place of the database id.
names_row_name_as_id(id, name) == <<id, "UFCStats", name, name>>

\* writer.writerow([fighter_id, "UFCStats", name, fighter_id])
names_row(id, name) == <<id, "UFCStats", name, id>>

\* read_csv on a row of the names file.
names_read(row) ==
    <<row[1], row[2], IF row[3] \in {"nan", "NULL", ""} THEN "" ELSE row[3], row[4]>>

\* load_data on the names file.
names_load(f) == drop_duplicates([k \in DOMAIN f |-> names_read(f[k])])

\* existing_records
existing_records(df) ==
    {df[k][1] : k \in {j \in DOMAIN df : df[j][2] = "UFCStats"}}

\* missing_records
missing_records(recs, df) ==
    SelectSeq(recs, LAMBDA r : r[1] \notin existing_records(df))

\* The names file earlier runs left, and the handler constructed on it: the
\* UFCStats rows of the fighters in S, and a BestFightOdds row or none.
NamesInit ==
    /\ fights_loaded \in SeqsUpTo({p \in FighterIds \X FighterIds : p[1] # p[2]}, MaxFights)
    /\ fighters_known \in {FighterIds, FighterIds \ {"a"}}
    /\ \E S \in SUBSET FighterIds, bfo \in BOOLEAN :
          names_file =
              SelectSeq(<<names_row("a", ""), names_row("b", fighter_name["b"]),
                          names_row("c", fighter_name["c"])>>,
                        LAMBDA r : r[1] \in S)
              \o (IF bfo THEN <<<<"b", "BestFightOdds", "Paulo Costa", "Paulo-Costa-2">>>>
                         ELSE <<>>)
    /\ names_data = names_load(names_file)
    /\ nop = "init"
    /\ n_calls = 0
    /\ n_appended = 0
    /\ StoreIdle
    /\ ExecIdle
    /\ ScrapeIdle
    /\ OddsIdle
    /\ ResolveIdle
    /\ PagesIdle
    /\ StatsIdle
    /\ WinnerIdle
    /\ FightsIdle
    /\ RunsIdle
    /\ ScriptIdle

\* check_missing_records: when a fighter of the UFCStats data has no
\* UFCStats row in self.data, a row is appended for every row of the
\* UFCStats data and the data is loaded again.
CheckMissing ==
    LET recs == names_ufcstats_data
        rows == [k \in DOMAIN recs |-> names_row(recs[k][1], recs[k][2])]
    IN  /\ n_calls < MaxCalls
        /\ IF missing_records(recs, names_data) # <<>>
           THEN /\ names_file' = names_file \o rows
                /\ names_data' = names_load(names_file')
                /\ n_appended' = Len(rows)
           ELSE /\ UNCHANGED <<names_file, names_data>>
                /\ n_appended' = 0
        /\ nop' = "check_missing_records"
        /\ n_calls' = n_calls + 1
        /\ UNCHANGED <<fights_loaded, fighters_known, notNames>>

NamesNext == CheckMissing

SpecNames == NamesInit /\ [][NamesNext]_vars

\* The fighter ids that occur as fighter_1 or fighter_2 of a loaded fight.
FightersOfFights ==
    {fights_loaded[k][1] : k \in DOMAIN fights_loaded}
        \cup {fights_loaded[k][2] : k \in DOMAIN fights_loaded}

\* C34: after check_missing_records has returned, every fighter of a loaded
\* fight has a row in the data whose database is "UFCStats" and whose
\* database_id is the fighter's id; a call that follows a call appends no
\* row and leaves the data as it is.
C34_NamesCompleteAfterCheck ==
    /\ [](nop = "check_missing_records" =>
            \A id \in FightersOfFights :
                \E k \in DOMAIN names_data :
                    /\ names_data[k][1] = id
                    /\ names_data[k][2] = "UFCStats"
                    /\ names_data[k][4] = id)
    /\ [][(nop = "check_missing_records" /\ nop' = "check_missing_records") =>
            /\ n_appended' = 0
            /\ names_file' = names_file
            /\ names_data' = names_data]_vars

\* A first call found the UFCStats row of a fighter missing and appended
\* the rows of both fights; the second call appended nothing.
C34_Witness ==
    /\ n_calls = 2
    /\ n_appended = 0
    /\ Len(fights_loaded) = 2
    /\ Len(names_file) >= 4
    /\ Len(names_data) < Len(names_file)
    /\ FightersOfFights = FighterIds

====
